---- MODULE Spec2Model ----
(***************************************************************************)
(* Daily-progression engine of Kopalnia Wiedzy: the retention / streak     *)
(* engine (core/missions.py), the deterministic daily selector             *)
(* (core/app_helpers.py, app.py) and the logged-in daily mission           *)
(* controller (pages/misje.py) over the profile store                      *)
(* (core/persistence.py, core/profile.py).                                 *)
(*                                                                         *)
(* A calendar-day key "YYYY-MM-DD" is represented by its day ordinal:      *)
(* key 1 is 2024-01-01, key 2 is 2024-01-02, and so on.  strftime and the  *)
(* split("-")/date(y, m, d) parse of update_streak are inverse on such     *)
(* keys, so the difference of two ordinals is (cur - last).days.           *)
(***************************************************************************)
EXTENDS Integers, Sequences, FiniteSets, TLC

\* ------------------------------------------------------------------------
\* Bounds of the model
\* ------------------------------------------------------------------------
MaxStreakDay ==
    5
MaxStreak ==
    5
MaxFreezes ==
    2
MaxPool ==
    3
\* the last calendar day of the mission controller's executions
MaxDay ==
    3
\* how many times the browser session may be restarted
MaxRestarts ==
    1
\* the last calendar day of the retention engine's executions
MaxEngineDay ==
    4
\* the largest streak value passed to claim_streak_lootbox
MaxLootStreak ==
    7
\* the history counters of granted rewards stop counting here
MaxCount ==
    2
\* how many outcomes are fed to skill_update
MaxOutcomes ==
    11
\* how many _save_users / _load_users calls are started
MaxKvOps ==
    3
\* how many calls the two tabs make
MaxTabCalls ==
    4
\* the last calendar day of the controller-owner runs
MaxOwnerDay ==
    3
\* how many times the process holding the store restarts
MaxKvRestarts ==
    1

\* ------------------------------------------------------------------------
\* Program constants
\* ------------------------------------------------------------------------
\* StreakState.last_day = None (no daily cycle completed yet)
NoDay ==
    0
\* add_xp(..., daily_cap=120)
DailyCap ==
    120
\* add_xp(2, reason="daily_q1_ok") / add_xp(2, reason="daily_q2_ok")
XpDailyStep ==
    2
\* add_xp(12, reason="daily_mission_done")
XpDailyDone ==
    12
\* add_gems(3, reason="daily_mission_done")
GemsDailyDone ==
    3

VARIABLES
    us_state,   \* update_streak: the StreakState passed in
    us_today,   \* update_streak: the today key passed in
    us_out,     \* update_streak: the returned (state, event, gap_day) or NoResult
    pk_impl,    \* daily selector: which pick_daily_chunk of the repository is called
    pk_items,   \* daily selector: the pool
    pk_k,       \* daily selector: the requested chunk size
    pk_salt,    \* daily selector: the salt
    pk_seed,    \* daily selector: seed text of the latest shuffle
    pk_perm,    \* daily selector: the permutation random.Random(seed).shuffle applied
    pk_picks,   \* daily selector: the chunks returned for day_idx 0, 1, 2, ...
    today_key,  \* the calendar day (_today_key())
    db,         \* the users database: user -> profile (_load_users / _save_users)
    ss,         \* st.session_state of the one browser session
    gh,         \* history of the rewards granted (not program state)
    sk_db,      \* quiz levels: user -> profile document with its "skill" dict
    sk_fed,     \* quiz levels: the outcomes passed to skill_update so far
    sk_levels,  \* quiz levels: the level each skill_update call returned
    kv_cfg,     \* users store: "file" (no DATABASE_URL) or "db"
    kv_fcntl,   \* users store: the fcntl module was imported and flock works
    kv_table,   \* users store: the value of the row "users" of kv_store, or NoRow
    kv_path,    \* users store: the file USERS_FILE names, 0 when it does not exist
    kv_files,   \* users store: file id -> the text written to that file
    kv_lock,    \* users store: the call holding flock(USERS_FILE + ".lock"), or 0
    kv_proc,    \* users store: each thread's call in progress
    kv_hist,    \* users store: history of the calls (not program state)
    mo_user,    \* controller owner: st.session_state["user"]
    mo_mc,      \* controller owner: st.session_state["mc"]
    mo_day,     \* controller owner: the calendar day
    mo_last,    \* controller owner: the last script run (not program state)
    pf_other,   \* two tabs: st.session_state of the tab that is not running
    pf_last,    \* two tabs: the last call and the profile before it (not program state)
    mg_x,       \* controller schema: the value of st.session_state["mc"]
    mg_day,     \* controller schema: the calendar day
    mg_last,    \* controller schema: the last operation (not program state)
    bn_done,    \* bonus missions: the tasks in school_tasks[today] of the profile
    bn_pack,    \* bonus missions: the pack _logged_bonus_pack returns today
    bn_mc,      \* bonus missions: st.session_state["mc"]["bonus"]
    bn_last,    \* bonus missions: the last run (not program state)
    bn_n,       \* bonus missions: history of the day (not program state)
    dc_day,     \* question cache: the calendar day
    dc_toggle,  \* question cache: st.session_state["fantasy_mode"]
    dc_maps,    \* question cache: the dataset has a column apply_fantasy rewrites
    dc_mc,      \* question cache: mc["step"] and mc["daily"]
    dc_hist,    \* question cache: history of the day (not program state)
    xc_granted, \* daily cap: the XP add_xp has granted today (not program state)
    xc_n,       \* daily cap: how many reward operations have run
    ud_store,   \* users document: the stored document, user -> profile
    ud_proc,    \* users document: each session's call of _user_db_set
    ud_hist     \* users document: the profiles the returned calls wrote (not program state)

streakVars ==
    <<us_state, us_today, us_out>>

pickVars ==
    <<pk_impl, pk_items, pk_k, pk_salt, pk_seed, pk_perm, pk_picks>>

appVars ==
    <<today_key, db, ss, gh>>

skillVars ==
    <<sk_db, sk_fed, sk_levels>>

\* the variables of the specifications that follow Spec
kvVars ==
    <<kv_cfg, kv_fcntl, kv_table, kv_path, kv_files, kv_lock, kv_proc, kv_hist>>

ownerVars ==
    <<mo_user, mo_mc, mo_day, mo_last>>

tabVars ==
    <<pf_other, pf_last>>

mcVars ==
    <<mg_x, mg_day, mg_last>>

\* the variables of the specifications that follow SpecTabs
bonusVars ==
    <<bn_done, bn_pack, bn_mc, bn_last, bn_n>>

cacheVars ==
    <<dc_day, dc_toggle, dc_maps, dc_mc, dc_hist>>

xpVars ==
    <<xc_granted, xc_n>>

docVars ==
    <<ud_store, ud_proc, ud_hist>>

\* the variables of the specifications that follow SpecXp
afterXpVars ==
    <<docVars>>

\* the variables of the specifications that follow SpecCache
afterCacheVars ==
    <<xpVars, afterXpVars>>

\* the variables of the specifications that follow SpecBonus
afterBonusVars ==
    <<cacheVars, afterCacheVars>>

\* the variables of the specifications that follow SpecMc
afterMcVars ==
    <<bonusVars, afterBonusVars>>

lateVars ==
    <<mcVars, afterMcVars>>

moreVars ==
    <<skillVars, kvVars, ownerVars, tabVars, lateVars>>

vars ==
    <<streakVars, pickVars, appVars, moreVars>>

\* ========================================================================
\* Retention / streak engine (core/missions.py)
\* ========================================================================

\* @dataclass StreakState
StreakState(streak, last_day, freezes, freeze_used_days) ==
    [streak |-> streak, last_day |-> last_day, freezes |-> freezes,
     freeze_used_days |-> freeze_used_days]

Max(a, b) ==
    IF a >= b THEN a ELSE b

Min(a, b) ==
    IF a <= b THEN a ELSE b

StreakResult(state, event, gap_day) ==
    [state |-> state, event |-> event, gap_day |-> gap_day]

\* mutant: a clock that went back is treated like a broken streak
update_streak_skew_resets(state, today) ==
    StreakResult(StreakState(1, today, state.freezes, state.freeze_used_days),
                 "same_day", NoDay)

\* the branch of update_streak for today earlier than last_day (diff <= 0)
update_streak_skew(state, today) ==
    StreakResult(StreakState(Max(1, state.streak), today, state.freezes,
                             state.freeze_used_days),
                 "same_day", NoDay)

\* mutant: the freeze is used but not taken from the count
update_streak_gap2_keeps_freeze(state, today) ==
    LET gap  == today - 1
        used == state.freeze_used_days
    IN  IF state.freezes > 0 /\ gap \notin used
        THEN StreakResult(StreakState(state.streak + 1, today, state.freezes,
                                      used \cup {gap}),
                          "freeze", gap)
        ELSE StreakResult(StreakState(1, today, state.freezes, used), "reset", NoDay)

\* mutant: the missed day is not looked up in freeze_used_days
update_streak_gap2_ignores_used(state, today) ==
    LET gap  == today - 1
        used == state.freeze_used_days
    IN  IF state.freezes > 0
        THEN StreakResult(StreakState(state.streak + 1, today, state.freezes - 1,
                                      used \cup {gap}),
                          "freeze", gap)
        ELSE StreakResult(StreakState(1, today, state.freezes, used), "reset", NoDay)

\* the diff == 2 branch of update_streak: one missed day
update_streak_gap2(state, today) ==
    LET gap  == today - 1
        used == state.freeze_used_days
    IN  IF state.freezes > 0 /\ gap \notin used
        THEN StreakResult(StreakState(state.streak + 1, today, state.freezes - 1,
                                      used \cup {gap}),
                          "freeze", gap)
        ELSE StreakResult(StreakState(1, today, state.freezes, used), "reset", NoDay)

\* mutant: a second completion on the same day counts again
update_streak_same_day_counts(state, today) ==
    StreakResult(StreakState(state.streak + 1, today, state.freezes,
                             state.freeze_used_days),
                 "same_day", NoDay)

\* the branch of update_streak for today equal to last_day
update_streak_same_day(state, today) ==
    StreakResult(state, "same_day", NoDay)

update_streak(state, today) ==
    IF state.last_day = today
    THEN update_streak_same_day(state, today)
    ELSE IF state.last_day = NoDay
    THEN StreakResult(StreakState(1, today, state.freezes, state.freeze_used_days),
                      "first", NoDay)
    ELSE LET diff == today - state.last_day
         IN  IF diff = 1
             THEN StreakResult(StreakState(state.streak + 1, today, state.freezes,
                                           state.freeze_used_days),
                               "continue", NoDay)
             ELSE IF diff = 2
             THEN update_streak_gap2(state, today)
             ELSE IF diff > 2
             THEN StreakResult(StreakState(1, today, state.freezes,
                                           state.freeze_used_days),
                               "reset", NoDay)
             ELSE update_streak_skew(state, today)

\* ========================================================================
\* Deterministic daily selector (core/app_helpers.py, app.py)
\* ========================================================================
\* math.ceil(a / b) for b > 0
Ceil(a, b) ==
    (a + b - 1) \div b

\* the permutations random.shuffle can apply to a list of n elements
Perms(n) ==
    {p \in [1..n -> 1..n] : \A i, j \in 1..n : p[i] = p[j] => i = j}

\* _stable_shuffle(arr, seed_text): perm is the permutation that
\* random.Random(sha256(seed_text) % 10**12).shuffle applies; it is a function
\* of the seed text alone
stable_shuffle(arr, perm) ==
    IF arr = <<>> THEN <<>> ELSE [i \in 1..Len(arr) |-> arr[perm[i]]]

\* mutant: k is clamped from below only
pick_daily_chunk_unclamped(items, k, day_idx, perm) ==
    IF items = <<>>
    THEN <<>>
    ELSE LET n        == Len(items)
             kk       == Max(1, k)
             shuffled == stable_shuffle(items, perm)
             start    == (day_idx * kk) % n
         IN  [i \in 1..kk |-> shuffled[((start + (i - 1)) % n) + 1]]

\* core.app_helpers.pick_daily_chunk; the seed text is "{salt}::day::{day_idx}"
pick_daily_chunk(items, k, day_idx, perm) ==
    IF items = <<>>
    THEN <<>>
    ELSE LET n        == Len(items)
             kk       == Max(1, Min(k, n))
             shuffled == stable_shuffle(items, perm)
             start    == (day_idx * kk) % n
         IN  [i \in 1..kk |-> shuffled[((start + (i - 1)) % n) + 1]]

\* pick_daily_chunk of the "Przedmioty szkolne" page of app.py; the seed text
\* is the salt alone
school_pick_daily_chunk(items, k, day_idx, perm) ==
    IF items = <<>>
    THEN <<>>
    ELSE LET n          == Len(items)
             kk         == Max(1, Min(k, n))
             shuffled   == stable_shuffle(items, perm)
             num_chunks == Ceil(n, kk)
             start      == (day_idx % num_chunks) * kk
         IN  SubSeq(shuffled, start + 1, Min(start + kk, n))

\* the module-level pick_daily_chunk of app.py; the seed text is
\* "{subject}:{get_today_key()}"
app_pick_daily_chunk(task_list, k, day_index, perm) ==
    IF task_list = <<>>
    THEN <<>>
    ELSE LET shuffled == stable_shuffle(task_list, perm)
         IN  IF k <= 0
             THEN <<>>
             ELSE LET groups == Ceil(Len(shuffled), k)
                      idx    == day_index % Max(groups, 1)
                      start  == idx * k
                  IN  SubSeq(shuffled, start + 1, Min(start + k, Len(shuffled)))

\* ========================================================================
\* Profile store and session (core/persistence.py, core/profile.py,
\* core/app_helpers.py)
\* ========================================================================
\* the registered accounts
Users ==
    {"ala"}

\* st.session_state["user"] = None
NoUser ==
    "none"

\* STREAK_MILESTONES of core/missions.py
STREAK_MILESTONES ==
    (3 :> [xp |-> 5, badge |-> "streak_3"]) @@
    (7 :> [xp |-> 10, badge |-> "streak_7"]) @@
    (14 :> [xp |-> 20, badge |-> "streak_14"]) @@
    (30 :> [xp |-> 40, badge |-> "streak_30"])

\* the "retention" dict get_retention_state puts into a profile that has none;
\* xp_day / xp_gained_today are the keys add_xp keeps in the same dict
DefaultRetention ==
    [streak |-> 0, last_day |-> NoDay, daily_done |-> {}, freezes |-> 0,
     freeze_used |-> {}, claimed |-> {}, xp_day |-> NoDay, xp_gained_today |-> 0,
     freeze_tutorial_seen |-> FALSE]

\* the profile the registration form of pages/start.py writes
NewProfile ==
    [xp |-> 0, gems |-> 0, stickers |-> {}, badges |-> {},
     unlocked_games |-> {}, school_tasks |-> {},
     retention |-> DefaultRetention]

\* a history entry: what the latest step granted
NoEvent ==
    [kind |-> "none"]

\* one more on a history counter
Count(n) ==
    Min(MaxCount, n + 1)

\* The operators below thread a record w through the calls of one script run:
\*   w.db, w.ss, w.gh   the database, the session state, the history
\*   w.due              2 s have passed since the last autosave (the debounce
\*                      of autosave_if_dirty); false once this run has saved
\*   w.handled          the widget clicked in this run was reached by the script
\*   w.info             the dict mark_daily_done returned
\*   w.screen           the screen the mode dispatch of pages/misje.py has drawn
\*                      in this run ("none": the run ended before the dispatch)

_user_db_get(w, user) ==
    w.db[user]

_user_db_set(w, user, prof) ==
    [w EXCEPT !.db[user] = prof]

get_retention_state(w, user) ==
    _user_db_get(w, user)

\* mutant: the day is never reported as completed
daily_is_done_never(w, user, day) ==
    FALSE

daily_is_done(w, user, day) ==
    day \in _user_db_get(w, user).retention.daily_done

\* core.profile.save_profile_from_session: re-reads the profile and overwrites
\* the fields kept in the session
save_profile_from_session(w) ==
    IF w.ss.user = NoUser
    THEN w
    ELSE _user_db_set(w, w.ss.user,
             [_user_db_get(w, w.ss.user) EXCEPT
                 !.xp = w.ss.xp, !.gems = w.ss.gems,
                 !.badges = w.ss.badges, !.stickers = w.ss.stickers,
                 !.unlocked_games = w.ss.unlocked_games])

autosave_if_dirty(w, force) ==
    IF w.ss.user = NoUser
    THEN w
    ELSE IF ~w.ss.profile_dirty /\ ~force
    THEN w
    ELSE IF ~force /\ ~w.due
    THEN w
    ELSE [save_profile_from_session(w) EXCEPT
             !.ss.profile_dirty = FALSE, !.due = FALSE]

mark_dirty(w) ==
    [w EXCEPT !.ss.profile_dirty = TRUE]

\* core.app_helpers.add_xp with the default daily_cap
add_xp(w, amount, day) ==
    IF amount <= 0
    THEN w
    ELSE IF w.ss.user = NoUser
    THEN autosave_if_dirty(mark_dirty([w EXCEPT !.ss.xp = @ + amount]), FALSE)
    ELSE LET user    == w.ss.user
             prof    == _user_db_get(w, user)
             r       == prof.retention
             gained  == IF r.xp_day # day THEN 0 ELSE r.xp_gained_today
             allowed == Min(amount, Max(0, DailyCap - gained))
             w1      == _user_db_set(w, user,
                            [prof EXCEPT !.retention.xp_day = day,
                                         !.retention.xp_gained_today = gained + allowed])
         IN  IF allowed <= 0
             THEN w1
             ELSE autosave_if_dirty(mark_dirty([w1 EXCEPT !.ss.xp = @ + allowed]),
                                    FALSE)

add_gems(w, amount) ==
    IF amount <= 0
    THEN w
    ELSE autosave_if_dirty(mark_dirty([w EXCEPT !.ss.gems = @ + amount]), FALSE)

grant_sticker(w, sticker_id) ==
    IF sticker_id \in w.ss.stickers
    THEN w
    ELSE autosave_if_dirty(mark_dirty([w EXCEPT !.ss.stickers = @ \cup {sticker_id}]),
                           FALSE)

save_progress(w) ==
    save_profile_from_session(w)

\* core.profile.load_profile_to_session
load_profile_to_session(w, username) ==
    LET prof == _user_db_get(w, username)
    IN  [w EXCEPT !.ss.user = username, !.ss.xp = prof.xp, !.ss.gems = prof.gems,
                  !.ss.badges = prof.badges, !.ss.stickers = prof.stickers,
                  !.ss.unlocked_games = prof.unlocked_games]

\* core.profile.patch_profile(updates, user=user) with updates =
\* {"retention": ret}: _deep_merge puts every key of ret into the stored dict
patch_profile(w, user, ret) ==
    LET prof == _user_db_get(w, user)
    IN  _user_db_set(w, user,
            [prof EXCEPT !.retention =
                [k \in DOMAIN @ |-> IF k \in DOMAIN ret THEN ret[k] ELSE @[k]]])

\* core.missions.mark_task_done(user, subject, task_text, xp_gain)
mark_task_done(w, user, subject, tid, xp_gain, day) ==
    LET profile == _user_db_get(w, user)
        key     == <<day, subject, tid>>
        w1      == IF key \notin profile.school_tasks
                   THEN add_xp(w, xp_gain, day)
                   ELSE w
    IN  _user_db_set(w1, user,
            [profile EXCEPT !.school_tasks = @ \cup {key},
                            !.xp = w1.ss.xp, !.gems = w1.ss.gems])

\* core.app_helpers.unlock_game(game_id, cost); the else branch of a failed
\* autosave is save_progress
unlock_game(w, game_id, cost) ==
    IF w.ss.gems < cost \/ game_id \in w.ss.unlocked_games
    THEN w
    ELSE autosave_if_dirty(
             mark_dirty([w EXCEPT !.ss.unlocked_games = @ \cup {game_id},
                                  !.ss.gems = @ - cost]),
             FALSE)

\* ------------------------------------------------------------------------
\* Retention engine over the store (core/missions.py)
\* ------------------------------------------------------------------------
\* the four fields of the retention state the streak engine owns
StreakOf(r) ==
    StreakState(r.streak, r.last_day, r.freezes, r.freeze_used)

\* mark_daily_done for a logged-in user; w.info is the dict it returns
mark_daily_done(w, user, day) ==
    LET profile == get_retention_state(w, user)
        r       == profile.retention
        wh      == [w EXCEPT
                       !.gh.marked = @ \cup {<<user, day>>},
                       !.gh.last = [kind |-> "mark", user |-> user, day |-> day,
                                    repeated |-> (<<user, day>> \in w.gh.marked),
                                    before |-> StreakOf(r)]]
    IN  IF day \in r.daily_done
        THEN [wh EXCEPT !.info = [streak |-> r.streak, freeze_used |-> FALSE,
                                  gap_day |-> NoDay]]
        ELSE LET res == update_streak(StreakOf(r), day)
                 r2  == [r EXCEPT !.freeze_used = res.state.freeze_used_days,
                                  !.streak = res.state.streak,
                                  !.last_day = res.state.last_day,
                                  !.freezes = res.state.freezes,
                                  !.daily_done = @ \cup {day}]
             IN  [_user_db_set(wh, user, [profile EXCEPT !.retention = r2]) EXCEPT
                     !.info = [streak |-> res.state.streak,
                               freeze_used |-> (res.event = "freeze"),
                               gap_day |-> res.gap_day]]

\* mutant: the reward is given but the milestone is not recorded as claimed
claim_streak_lootbox_forgets(w, user, streak, got_freeze) ==
    IF user = NoUser
    THEN w
    ELSE LET profile == get_retention_state(w, user)
             r       == profile.retention
         IN  IF streak \in DOMAIN STREAK_MILESTONES /\ streak \notin r.claimed
             THEN LET reward == STREAK_MILESTONES[streak]
                      w1 == [w EXCEPT !.ss.xp = @ + reward.xp,
                                      !.ss.badges = @ \cup {reward.badge}]
                      w2 == grant_sticker(w1, "sticker_lootbox")
                      r2 == [r EXCEPT !.freezes = IF got_freeze THEN @ + 1 ELSE @]
                      w3 == _user_db_set(w2, user, [profile EXCEPT !.retention = r2])
                      w4 == save_progress(w3)
                  IN  [w4 EXCEPT
                          !.gh.mile_grants[<<user, streak>>] = Count(@),
                          !.gh.last = [kind |-> "claim", user |-> user,
                                       streak |-> streak, granted |-> TRUE]]
             ELSE [w EXCEPT !.gh.last = [kind |-> "claim", user |-> user,
                                         streak |-> streak, granted |-> FALSE]]

\* claim_streak_lootbox; got_freeze is the outcome of the roll
\* sha256("freeze_drop::user::streak::today") % 100 < 25
claim_streak_lootbox(w, user, streak, got_freeze) ==
    IF user = NoUser
    THEN w
    ELSE LET profile == get_retention_state(w, user)
             r       == profile.retention
         IN  IF streak \in DOMAIN STREAK_MILESTONES /\ streak \notin r.claimed
             THEN LET reward == STREAK_MILESTONES[streak]
                      w1 == [w EXCEPT !.ss.xp = @ + reward.xp,
                                      !.ss.badges = @ \cup {reward.badge}]
                      w2 == grant_sticker(w1, "sticker_lootbox")
                      r2 == [r EXCEPT !.freezes = IF got_freeze THEN @ + 1 ELSE @,
                                      !.claimed = @ \cup {streak}]
                      \* save_retention_state writes the dict read at the top
                      w3 == _user_db_set(w2, user, [profile EXCEPT !.retention = r2])
                      w4 == save_progress(w3)
                  IN  [w4 EXCEPT
                          !.gh.mile_grants[<<user, streak>>] = Count(@),
                          !.gh.last = [kind |-> "claim", user |-> user,
                                       streak |-> streak, granted |-> TRUE]]
             ELSE [w EXCEPT !.gh.last = [kind |-> "claim", user |-> user,
                                         streak |-> streak, granted |-> FALSE]]

\* ========================================================================
\* Mission controller of a logged-in user (core/mc_state.py, pages/misje.py)
\* ========================================================================
\* mc["daily"]["ui"] without q1_feedback / q2_feedback / q3_feedback; a feedback
\* is "ok" for {"ok": True}, "bad" for {"ok": False}
NoUi ==
    [q \in {"q1", "q2", "q3"} |-> "none"]

\* mc_default(today); a key the dict does not have (_user, subject,
\* q_rewarded, rewarded_day, interstitial, finish_reward, _fantasy_mode) has
\* the value of an absent key.  FALSE stands for None, {} and an absent key,
\* TRUE for a value that was stored
mc_default(day) ==
    [today |-> day, mode |-> "daily", step |-> 0, locked |-> FALSE,
     _user |-> NoUser, subject |-> "none",
     daily |-> [q |-> FALSE, ui |-> NoUi, toast |-> FALSE, rewarded |-> FALSE,
                df_used |-> FALSE, interstitial |-> FALSE,
                finish_reward |-> FALSE, q_rewarded |-> {},
                rewarded_day |-> NoDay, _fantasy_mode |-> "unset"],
     bonus |-> [ui |-> FALSE, toast |-> FALSE, active_i |-> 0,
                done_day |-> NoDay, finish_reward |-> FALSE,
                interstitial |-> FALSE]]

\* a mc_migrate that carries nothing over the day change
mc_migrate_forgets(existing, day) ==
    IF existing.today # day THEN mc_default(day) ELSE existing

\* mc_migrate(existing, today) on a state of the current schema: the day
\* change resets everything but a pending bonus finish_reward
mc_migrate(existing, day) ==
    IF existing.today # day
    THEN [mc_default(day) EXCEPT !.bonus.finish_reward =
                                     existing.bonus.finish_reward]
    ELSE existing

\* st.session_state of a new browser session after ensure_session_defaults
NewSession(day) ==
    [user |-> NoUser, xp |-> 0, gems |-> 0, stickers |-> {}, badges |-> {},
     unlocked_games |-> {}, profile_dirty |-> FALSE, mc |-> mc_default(day),
     missions_view |-> "none", _force_daily_once |-> FALSE,
     force_daily_until |-> FALSE, rerun |-> FALSE]

\* st.rerun(): the script runs again at once, without a click
st_rerun(w) ==
    [w EXCEPT !.ss.rerun = TRUE]

\* the handler of the clicked widget has run
Handled(w) ==
    [w EXCEPT !.handled = TRUE]

\* the run has drawn the widgets of `screen`
Present(w, screen) ==
    [w EXCEPT !.screen = screen]

\* render(): the controller is owned by another user (mc["_user"] != user)
user_change_reset(mc, user, is_guest_user) ==
    [mc EXCEPT !._user = user,
               !.mode = IF is_guest_user THEN "daily" ELSE "free",
               !.step = 0,
               !.daily.toast = FALSE, !.daily.rewarded = FALSE,
               !.daily.q = FALSE, !.daily.ui = NoUi,
               !.daily.interstitial = FALSE, !.daily.finish_reward = FALSE,
               !.bonus.toast = FALSE, !.bonus.ui = FALSE,
               !.bonus.interstitial = FALSE, !.bonus.finish_reward = FALSE,
               !.bonus.active_i = 0, !.bonus.done_day = NoDay]

\* render(): the missions_view intent
apply_view(mc, view) ==
    IF view = "daily"
    THEN [mc EXCEPT !.mode = "daily", !.daily.q = FALSE, !.daily.ui = NoUi,
                    !.daily.toast = FALSE, !.daily.rewarded = FALSE,
                    !.daily.interstitial = FALSE,
                    !.daily.finish_reward = FALSE]
    ELSE IF view = "bonus"
    THEN [mc EXCEPT !.mode = "bonus", !.bonus.toast = FALSE,
                    !.bonus.interstitial = FALSE,
                    !.bonus.finish_reward = FALSE]
    ELSE IF view = "done"
    THEN [mc EXCEPT !.mode = "done"]
    ELSE IF view = "subject"
    THEN [mc EXCEPT !.mode = "subject", !.subject = "bonus_subject"]
    ELSE IF mc.mode \notin {"daily", "bonus", "done", "subject"}
    THEN [mc EXCEPT !.mode = "free"]
    ELSE mc

\* render(): _force_daily_once / force_daily_until restart the daily sequence
force_daily(mc) ==
    [mc EXCEPT !.mode = "daily", !.step = 0, !.daily.q = FALSE,
               !.daily.ui = NoUi, !.daily.toast = FALSE,
               !.daily.rewarded = FALSE, !.daily.interstitial = FALSE,
               !.daily.finish_reward = FALSE, !.daily.rewarded_day = NoDay]

\* render(): the Fantasy mode toggle was changed
fantasy_reset(mc) ==
    [mc EXCEPT !.step = 0, !.daily.ui = NoUi, !.daily.finish_reward = FALSE]

\* render_daily, step 0 (qn = "q1") and step 1 (qn = "q2")
daily_question(w, day, qn, click, ok) ==
    LET mc   == w.ss.mc
        fb   == mc.daily.ui[qn]
        user == w.ss.user
        key  == <<day, qn>>
    IN  IF fb = "ok"
        THEN LET rewarded == key \in mc.daily.q_rewarded
                 w1 == IF rewarded THEN w ELSE add_xp(w, XpDailyStep, day)
             IN  st_rerun([w1 EXCEPT
                     !.ss.mc.daily.q_rewarded = @ \cup {key},
                     !.ss.mc.daily.ui[qn] = "none",
                     !.ss.mc.step = @ + 1,
                     !.gh.submitted = @ \cup {<<user, day, qn>>},
                     !.gh.step_grants[<<user, day, qn>>] =
                         IF rewarded THEN @ ELSE Count(@),
                     !.gh.last = [kind |-> "submit", user |-> user, day |-> day,
                                  q |-> qn,
                                  repeated |-> (<<user, day, qn>> \in w.gh.submitted),
                                  xp_before |-> w.ss.xp]])
        ELSE IF fb = "bad"
        THEN IF click = "retry"
             THEN Handled(st_rerun([w EXCEPT !.ss.mc.daily.ui[qn] = "none"]))
             ELSE w
        ELSE IF click = "check"
        THEN Handled(st_rerun([w EXCEPT !.ss.mc.daily.ui[qn] =
                                            IF ok THEN "ok" ELSE "bad"]))
        ELSE w

\* render_daily, step 2: the handler of "Zakoncz misje dnia"
finish_daily(w, day, got_freeze) ==
    LET user  == w.ss.user
        w0    == [w EXCEPT !.ss.mc.daily.ui["q3"] = "none"]
        w1    == mark_daily_done(w0, user, day)
        w2    == IF w1.info.freeze_used THEN grant_sticker(w1, "sticker_freeze")
                                        ELSE w1
        w3    == claim_streak_lootbox(w2, user, w1.info.streak, got_freeze)
        apply == w3.ss.mc.daily.rewarded_day # day
        w4    == IF apply
                 THEN add_gems(grant_sticker(add_xp(w3, XpDailyDone, day),
                                             "sticker_daily"),
                               GemsDailyDone)
                 ELSE w3
    IN  Handled(st_rerun([w4 EXCEPT
            !.ss.mc.daily.rewarded_day = IF apply THEN day ELSE @,
            !.ss.mc.daily.finish_reward = TRUE,
            !.ss.mc.mode = "done",
            !.gh.bonus_grants[<<user, day>>] = IF apply THEN Count(@) ELSE @,
            !.gh.finishes[<<user, day>>] = Count(@),
            !.gh.last = [kind |-> "finish", user |-> user, day |-> day,
                         applied |-> apply, gems_before |-> w.ss.gems]]))

\* render_daily, step 2
daily_last_question(w, day, click, ok, got_freeze) ==
    LET fb == w.ss.mc.daily.ui["q3"]
    IN  IF fb = "ok"
        THEN IF click = "finish"
             THEN finish_daily(w, day, got_freeze)
             ELSE IF click = "stay"
             THEN Handled(st_rerun([w EXCEPT !.ss.mc.daily.ui["q3"] = "none"]))
             ELSE w
        ELSE IF fb = "bad"
        THEN IF click = "retry"
             THEN Handled(st_rerun([w EXCEPT !.ss.mc.daily.ui["q3"] = "none"]))
             ELSE w
        ELSE IF click = "check"
        THEN Handled(st_rerun([w EXCEPT !.ss.mc.daily.ui["q3"] =
                                            IF ok THEN "ok" ELSE "bad"]))
        ELSE w

\* render_daily without the "Misja dnia jest juz ukonczona" card
render_daily_asks_again(w, day, click, ok, got_freeze) ==
    LET mc == w.ss.mc
    IN  IF mc.daily.finish_reward
        THEN Present(IF click = "daily_finish_back"
                     THEN Handled([w EXCEPT !.ss.mc.daily.finish_reward = FALSE])
                     ELSE w,
                     "daily_finish_reward")
        ELSE IF mc.step = 0
        THEN Present(daily_question(w, day, "q1", click, ok), "q1")
        ELSE IF mc.step = 1
        THEN Present(daily_question(w, day, "q2", click, ok), "q2")
        ELSE Present(daily_last_question(w, day, click, ok, got_freeze), "q3")

\* render_daily for a logged-in user; the dispatcher calls it for the modes
\* other than bonus, done, free and subject
render_daily(w, day, click, ok, got_freeze) ==
    LET mc == w.ss.mc
    IN  IF mc.daily.finish_reward
        THEN Present(IF click = "daily_finish_back"
                     THEN Handled([w EXCEPT !.ss.mc.daily.finish_reward = FALSE])
                     ELSE w,
                     "daily_finish_reward")
        ELSE IF mc.mode # "free" /\ daily_is_done(w, w.ss.user, day)
        THEN Present(IF click = "daily_done_to_bonus"
                     THEN Handled(st_rerun([w EXCEPT !.ss.mc.mode = "bonus"]))
                     ELSE w,
                     "daily_done")
        ELSE IF mc.step = 0
        THEN Present(daily_question(w, day, "q1", click, ok), "q1")
        ELSE IF mc.step = 1
        THEN Present(daily_question(w, day, "q2", click, ok), "q2")
        ELSE Present(daily_last_question(w, day, click, ok, got_freeze), "q3")

render_done_screen(w, click) ==
    Present(IF click = "mc_bonus_back_daily"
            THEN Handled(st_rerun([w EXCEPT !.ss.mc.mode = "daily"]))
            ELSE w,
            "done")

\* one run of the script of pages/misje.py for a logged-in user.  click is the
\* widget the user clicked ("none" for a rerun or a plain entry of the page),
\* ok whether the chosen answer is the correct one, in5s whether the run
\* starts before force_daily_until
render(w, day, click, ok, got_freeze, in5s) ==
    LET user == w.ss.user
    IN  IF click = "quick_daily_logged"
        THEN Handled(st_rerun([w EXCEPT !.ss.missions_view = "daily",
                                        !.ss._force_daily_once = TRUE]))
        ELSE IF click = "quick_bonus_logged"
        THEN Handled(st_rerun([w EXCEPT !.ss.missions_view = "bonus"]))
        ELSE
        LET mc0     == mc_migrate(w.ss.mc, day)
            changed == mc0._user # user
            mc1     == IF changed THEN user_change_reset(mc0, user, FALSE) ELSE mc0
        IN  IF changed /\ w.ss.missions_view = "none"
            THEN st_rerun([w EXCEPT !.ss.mc = mc1])
            ELSE
            LET view        == w.ss.missions_view
                forced_view == view \in {"daily", "bonus", "done", "subject"}
                mc2  == apply_view(mc1, view)
                mc3  == IF w.ss._force_daily_once THEN force_daily(mc2) ELSE mc2
                w1   == [w EXCEPT !.ss.missions_view = "none",
                                  !.ss._force_daily_once = FALSE,
                                  !.ss.force_daily_until = FALSE]
            IN  IF w.ss.force_daily_until /\ in5s
                THEN st_rerun([w1 EXCEPT !.ss.mc = force_daily(mc3)])
                ELSE IF click = "fantasy_mode"
                THEN Handled(st_rerun([w1 EXCEPT !.ss.mc = fantasy_reset(mc3)]))
                ELSE
                LET mc4 == IF /\ ~forced_view
                              /\ mc3.mode \notin {"free", "subject"}
                              /\ daily_is_done(w, user, day)
                           THEN [mc3 EXCEPT !.mode = "bonus"]
                           ELSE mc3
                    w2  == [w1 EXCEPT !.ss.mc = mc4]
                IN  IF mc4.mode \in {"bonus", "free", "subject"}
                    THEN Present(w2, mc4.mode)
                    ELSE IF mc4.mode = "done"
                    THEN render_done_screen(w2, click)
                    ELSE render_daily(w2, day, click, ok, got_freeze)

\* ------------------------------------------------------------------------
\* The state a script run or an engine call starts from and leaves behind
\* ------------------------------------------------------------------------
AllDays ==
    1..Max(MaxDay, MaxEngineDay)

StepKeys ==
    Users \X AllDays \X {"q1", "q2"}

\* nothing granted yet
NoHistory ==
    [step_grants  |-> [k \in StepKeys |-> 0],
     bonus_grants |-> [k \in Users \X AllDays |-> 0],
     finishes     |-> [k \in Users \X AllDays |-> 0],
     mile_grants  |-> [k \in Users \X DOMAIN STREAK_MILESTONES |-> 0],
     submitted    |-> {},
     marked       |-> {},
     restarts     |-> 0,
     last         |-> NoEvent]

\* the history after midnight: what was granted on a past day is dropped, no
\* step reads or writes the entries of a day other than the current one
NewDayHistory(h) ==
    [NoHistory EXCEPT !.mile_grants = h.mile_grants, !.restarts = h.restarts]

NoInfo ==
    [streak |-> 0, freeze_used |-> FALSE, gap_day |-> NoDay]

\* the state a call starts from
StateNow(due) ==
    [db |-> db, ss |-> ss, gh |-> [gh EXCEPT !.last = NoEvent],
     due |-> due, handled |-> FALSE, info |-> NoInfo, screen |-> "none"]

\* the state at the start of a script run: ensure_session_defaults has
\* migrated the controller state
World(due) ==
    [StateNow(due) EXCEPT !.ss.rerun = FALSE,
                          !.ss.mc = mc_migrate(@, today_key)]

\* the state at the end of a script run
Commit(w) ==
    /\ db' = w.db
    /\ ss' = w.ss
    /\ gh' = w.gh

\* ========================================================================
\* Values of the parts of the state a specification leaves alone
\* ========================================================================
\* the value of a variable the specification at hand never reads or writes
NotInUse ==
    "not in use"

NoResult ==
    [event |-> "none"]

StreakIdle ==
    /\ us_state = StreakState(0, NoDay, 0, {})
    /\ us_today = 1
    /\ us_out = NoResult

NoSeed ==
    <<"", -2>>

AppIdle ==
    /\ today_key = 1
    /\ db = NotInUse
    /\ ss = NotInUse
    /\ gh = NotInUse

PickIdle ==
    /\ pk_impl = "none"
    /\ pk_items = <<>>
    /\ pk_k = 0
    /\ pk_salt = ""
    /\ pk_seed = NoSeed
    /\ pk_perm = <<>>
    /\ pk_picks = <<>>

\* ========================================================================
\* Users store: relational row with file fallback (core/persistence.py)
\* ========================================================================
\* Python values of a users document
PyInt(n) ==
    [t |-> "int", v |-> n]

PyStr(x) ==
    [t |-> "str", v |-> x]

PyList(seq) ==
    [t |-> "list", v |-> seq]

PyDict(f) ==
    [t |-> "dict", v |-> f]

\* {}
EmptyDict ==
    PyDict([k \in {} |-> 0])

\* a profile as the pages write it
PyProfile(xp, badges) ==
    PyDict("xp" :> PyInt(xp) @@ "badges" :> PyList(badges))

\* the users documents passed to _save_users
KvDocs ==
    { PyDict("ala" :> PyProfile(0, <<>>)),
      PyDict("ala" :> PyProfile(5, <<PyStr("streak_3")>>) @@
             "olek" :> PyProfile(2, <<>>)) }

\* json.dumps(value): the JSON value the text denotes
RECURSIVE json_dumps(_)
json_dumps(value) ==
    CASE value.t = "dict" ->
             [t |-> "object", v |-> [k \in DOMAIN value.v |-> json_dumps(value.v[k])]]
      [] value.t = "list" ->
             [t |-> "array", v |-> [i \in DOMAIN value.v |-> json_dumps(value.v[i])]]
      [] value.t = "int" -> [t |-> "number", v |-> value.v]
      [] value.t = "str" -> [t |-> "string", v |-> value.v]

\* json.loads(text)
RECURSIVE json_loads(_)
json_loads(json) ==
    CASE json.t = "object" ->
             PyDict([k \in DOMAIN json.v |-> json_loads(json.v[k])])
      [] json.t = "array" ->
             PyList([i \in DOMAIN json.v |-> json_loads(json.v[i])])
      [] json.t = "number" -> PyInt(json.v)
      [] json.t = "string" -> PyStr(json.v)

\* the text json.dump(data, f) writes, in the two pieces it reaches the file in
JsonText(data) ==
    <<[json |-> json_dumps(data), piece |-> 1],
      [json |-> json_dumps(data), piece |-> 2]>>

\* the text is one complete JSON document
Parses(text) ==
    /\ Len(text) = 2
    /\ text[1].piece = 1
    /\ text[2].piece = 2
    /\ text[1].json = text[2].json

\* the row "users" is not in kv_store
NoRow ==
    [t |-> "norow", v |-> [k \in {} |-> 0]]

\* the threads that call the store
KvThreads ==
    {1, 2}

\* a thread with no call in progress
KvIdleThread ==
    [pc |-> "idle", data |-> EmptyDict, fid |-> 0, backend |-> "none",
     expect |-> NoRow, quiet |-> FALSE, restarted |-> FALSE]

\* a read_json_file that never parses the file
read_json_file_default(text, default) ==
    default

\* read_json_file once the file is open: json.load(f), the default on any error
read_json_file(text, default) ==
    IF Parses(text) THEN json_loads(text[1].json) ELSE default

\* _load_users, file fallback: read_json_file(USERS_FILE, {}) or {}
load_users_file(text) ==
    LET val == read_json_file(text, EmptyDict)
    IN  IF val.v = EmptyDict.v THEN EmptyDict ELSE val

\* kv_set_json("users", db) with a database configured, by the outcome of the
\* connection and of the INSERT ... ON CONFLICT statement
kv_set_json(table, value, outcome) ==
    IF outcome = "ok"
    THEN [table |-> json_dumps(value), raised |-> FALSE]
    ELSE IF outcome = "connect_failed"
    THEN [table |-> table, raised |-> FALSE]
    ELSE [table |-> table, raised |-> TRUE]

\* kv_get_json("users", None) with a database configured: None is NoRow
kv_get_json(table, outcome) ==
    IF outcome = "ok" /\ table # NoRow THEN json_loads(table) ELSE NoRow

\* a _file_lock that never waits
_file_lock_noop(lock, thread, has_fcntl) ==
    TRUE

\* _file_lock(lock_path): fcntl.flock(LOCK_EX) returns once no other open
\* file holds the lock; without fcntl the lock does nothing
_file_lock(lock, thread, has_fcntl) ==
    has_fcntl => lock = 0

\* no call has been made
KvNoCall ==
    [op |-> "none", data |-> EmptyDict, raw |-> <<>>, src |-> "none",
     backend |-> "none", raised |-> FALSE, wrote |-> FALSE,
     expect |-> NoRow, quiet |-> FALSE, restarted |-> FALSE]

KvNoHistory ==
    [ops |-> 0, restarts |-> 0, saved |-> NoRow, dirty |-> FALSE,
     restarted |-> FALSE, last |-> KvNoCall]

KvIdle ==
    /\ kv_cfg = "file"
    /\ kv_fcntl = TRUE
    /\ kv_table = NoRow
    /\ kv_path = 0
    /\ kv_files = <<>>
    /\ kv_lock = 0
    /\ kv_proc = NotInUse
    /\ kv_hist = NotInUse

\* no call has been made in either tab
NoTabCall ==
    [kind |-> "none", n |-> 0, before |-> NewProfile, nested |-> FALSE,
     after_nested |-> NewProfile, spent |-> FALSE]

TabIdle ==
    /\ pf_other = NotInUse
    /\ pf_last = NotInUse

\* no script has run
NoRun ==
    [kind |-> "none", changed |-> FALSE, day |-> 1, pre |-> mc_default(1),
     migrated |-> mc_default(1)]

OwnerIdle ==
    /\ mo_user = NoUser
    /\ mo_mc = NotInUse
    /\ mo_day = 1
    /\ mo_last = NotInUse

SkillIdle ==
    /\ sk_db = [u \in Users |-> [skill |-> <<>>]]
    /\ sk_fed = <<>>
    /\ sk_levels = <<>>

McIdle ==
    /\ mg_x = NotInUse
    /\ mg_day = NotInUse
    /\ mg_last = NotInUse

BonusIdle ==
    /\ bn_done = NotInUse
    /\ bn_pack = NotInUse
    /\ bn_mc = NotInUse
    /\ bn_last = NotInUse
    /\ bn_n = NotInUse

CacheIdle ==
    /\ dc_day = 1
    /\ dc_toggle = FALSE
    /\ dc_maps = FALSE
    /\ dc_mc = NotInUse
    /\ dc_hist = NotInUse

XpIdle ==
    /\ xc_granted = 0
    /\ xc_n = 0

DocIdle ==
    /\ ud_store = NotInUse
    /\ ud_proc = NotInUse
    /\ ud_hist = NotInUse

AfterXpIdle ==
    DocIdle

AfterCacheIdle ==
    XpIdle /\ AfterXpIdle

AfterBonusIdle ==
    CacheIdle /\ AfterCacheIdle

AfterMcIdle ==
    BonusIdle /\ AfterBonusIdle

LateIdle ==
    McIdle /\ AfterMcIdle

MoreIdle ==
    SkillIdle /\ KvIdle /\ OwnerIdle /\ TabIdle /\ LateIdle

\* ========================================================================
\* Specification SpecPick: the selectors called for day_idx = 0, 1, 2, ...
\* ========================================================================
Salts ==
    {"school::matematyka", "data_quiz"}

Pools ==
    {[i \in 1..n |-> i] : n \in 0..MaxPool}

InitPick ==
    /\ pk_impl \in {"app_helpers", "app_school", "app"}
    /\ pk_items \in Pools
    /\ pk_k \in -1..(MaxPool + 1)
    /\ pk_salt \in Salts
    /\ pk_seed = NoSeed
    /\ pk_perm = <<>>
    /\ pk_picks = <<>>
    /\ StreakIdle
    /\ AppIdle
    /\ MoreIdle

\* the shuffle of a seed text: the one already drawn for it, else any permutation
ShuffleFor(seed) ==
    IF seed = pk_seed THEN {pk_perm} ELSE Perms(Len(pk_items))

\* the next day's call of one selector; the callers pass day_idx = days since
\* the epoch, so the calendar date of the call moves with day_idx
PickNext(impl, seed) ==
    /\ pk_impl = impl
    /\ Len(pk_picks) < MaxPool
    /\ \E perm \in ShuffleFor(seed) :
          /\ pk_seed' = seed
          /\ pk_perm' = perm
          /\ pk_picks' = Append(pk_picks,
                CASE impl = "app_helpers"
                       -> pick_daily_chunk(pk_items, pk_k, Len(pk_picks), perm)
                  [] impl = "app_school"
                       -> school_pick_daily_chunk(pk_items, pk_k, Len(pk_picks), perm)
                  [] OTHER
                       -> app_pick_daily_chunk(pk_items, pk_k, Len(pk_picks), perm))
    /\ UNCHANGED <<pk_impl, pk_items, pk_k, pk_salt, streakVars, appVars, moreVars>>

CallPickDailyChunk ==
    PickNext("app_helpers", <<pk_salt, Len(pk_picks)>>)

CallSchoolPickDailyChunk ==
    PickNext("app_school", <<pk_salt, -1>>)

CallAppPickDailyChunk ==
    PickNext("app", <<pk_salt, Len(pk_picks)>>)

NextPick ==
    \/ CallPickDailyChunk
    \/ CallSchoolPickDailyChunk
    \/ CallAppPickDailyChunk

SpecPick ==
    InitPick /\ [][NextPick]_vars

\* ========================================================================
\* Specification SpecStreak: update_streak applied to every (state, today)
\* ========================================================================
StreakDays ==
    1..MaxStreakDay

StreakInputs ==
    [streak : 0..MaxStreak, last_day : {NoDay} \cup StreakDays,
     freezes : 0..MaxFreezes, freeze_used_days : SUBSET StreakDays]

InitStreak ==
    /\ us_state \in StreakInputs
    /\ us_today \in StreakDays
    /\ us_out = NoResult
    /\ PickIdle
    /\ AppIdle
    /\ MoreIdle

CallUpdateStreak ==
    /\ us_out = NoResult
    /\ us_out' = update_streak(us_state, us_today)
    /\ UNCHANGED <<us_state, us_today, pickVars, appVars, moreVars>>

NextStreak ==
    CallUpdateStreak

SpecStreak ==
    InitStreak /\ [][NextStreak]_vars

\* ========================================================================
\* Specification SpecEngine: the retention engine called for one logged-in
\* user over the days 1 .. MaxEngineDay
\* ========================================================================
InitEngine ==
    /\ today_key = 1
    /\ db = [u \in Users |-> NewProfile]
    /\ \E u \in Users : ss = [NewSession(1) EXCEPT !.user = u]
    /\ gh = NoHistory
    /\ StreakIdle
    /\ PickIdle
    /\ MoreIdle

\* a step other than a call of update_streak: no result is held
ForgetStreakResult ==
    /\ us_state' = StreakState(0, NoDay, 0, {})
    /\ us_today' = 1
    /\ us_out' = NoResult

CallMarkDailyDone ==
    /\ Commit(mark_daily_done(StateNow(FALSE), ss.user, today_key))
    /\ ForgetStreakResult
    /\ UNCHANGED <<today_key, pickVars, moreVars>>

CallClaimStreakLootbox ==
    /\ \E streak \in 0..MaxLootStreak, got_freeze \in BOOLEAN :
          Commit(claim_streak_lootbox(StateNow(FALSE), ss.user, streak, got_freeze))
    /\ ForgetStreakResult
    /\ UNCHANGED <<today_key, pickVars, moreVars>>

\* update_streak called on the stored retention state, nothing saved; us_out
\* holds the result until the next step
CallUpdateStreakOfProfile ==
    /\ us_state' = StreakOf(get_retention_state(StateNow(FALSE), ss.user).retention)
    /\ us_today' = today_key
    /\ us_out' = update_streak(us_state', us_today')
    /\ gh' = [gh EXCEPT !.last = NoEvent]
    /\ UNCHANGED <<today_key, db, ss, pickVars, moreVars>>

\* midnight passes, once or more
NextDay ==
    /\ \E d \in (today_key + 1)..Min(today_key + 3, MaxEngineDay) : today_key' = d
    /\ gh' = NewDayHistory(gh)
    /\ ForgetStreakResult
    /\ UNCHANGED <<db, ss, pickVars, moreVars>>

\* the session ends and the user logs in again in a new one
Relogin ==
    /\ gh.restarts < MaxRestarts
    /\ ss' = load_profile_to_session(
                 [StateNow(FALSE) EXCEPT !.ss = NewSession(today_key)], ss.user).ss
    /\ gh' = [gh EXCEPT !.last = NoEvent, !.restarts = @ + 1]
    /\ ForgetStreakResult
    /\ UNCHANGED <<today_key, db, pickVars, moreVars>>

NextEngine ==
    \/ CallMarkDailyDone
    \/ CallClaimStreakLootbox
    \/ CallUpdateStreakOfProfile
    \/ NextDay
    \/ Relogin

SpecEngine ==
    InitEngine /\ [][NextEngine]_vars

\* ========================================================================
\* Specification Spec: one browser session (restarted at most MaxRestarts
\* times) in which the registered users log in and play the daily mission
\* ========================================================================
Init ==
    /\ today_key = 1
    /\ db = [u \in Users |-> NewProfile]
    /\ ss = NewSession(1)
    /\ gh = NoHistory
    /\ StreakIdle
    /\ PickIdle
    /\ MoreIdle

\* the values of an input of a script run: both where the run can read the
\* input, one where it cannot
Inputs(read) ==
    IF read THEN BOOLEAN ELSE {FALSE}

\* the user may act: no rerun of the script is pending
Interactive ==
    ~ss.rerun

\* one run of pages/misje.py, started by a click on `click` or, for "none",
\* by st.rerun() or by opening the page
Misje(click) ==
    /\ ss.user # NoUser
    /\ click # "none" => Interactive
    /\ \E ok \in Inputs(click = "check"), got_freeze \in Inputs(click = "finish"),
          in5s \in Inputs(ss.force_daily_until), due \in BOOLEAN :
          LET w == render(World(due), today_key, click, ok, got_freeze, in5s)
          IN  /\ click # "none" => w.handled
              /\ Commit(w)
    /\ UNCHANGED <<today_key, streakVars, pickVars, moreVars>>

OpenMisje ==
    Misje("none")

ClickQuickDaily ==
    Misje("quick_daily_logged")

ClickQuickBonus ==
    Misje("quick_bonus_logged")

ToggleFantasy ==
    Misje("fantasy_mode")

ClickCheck ==
    Misje("check")

ClickRetry ==
    Misje("retry")

ClickFinish ==
    Misje("finish")

ClickStay ==
    Misje("stay")

\* pages/start.py: "START MISJI DNIA"
ClickStartMission ==
    /\ ss.user # NoUser
    /\ Interactive
    /\ ss' = [World(FALSE).ss EXCEPT !.missions_view = "daily",
                                     !._force_daily_once = TRUE,
                                     !.force_daily_until = TRUE,
                                     !.rerun = TRUE]
    /\ gh' = [gh EXCEPT !.last = NoEvent]
    /\ UNCHANGED <<today_key, db, streakVars, pickVars, moreVars>>

\* pages/start.py: "Zaloguj"
Login ==
    /\ ss.user = NoUser
    /\ Interactive
    /\ \E u \in Users : Commit(load_profile_to_session(World(FALSE), u))
    /\ UNCHANGED <<today_key, streakVars, pickVars, moreVars>>

\* pages/start.py: "Wyloguj"
Logout ==
    /\ ss.user # NoUser
    /\ Interactive
    /\ LET w == autosave_if_dirty(World(FALSE), TRUE)
       IN  Commit([w EXCEPT !.ss.user = NoUser, !.ss.xp = 0, !.ss.badges = {},
                            !.ss.stickers = {}, !.ss.gems = 0,
                            !.ss.unlocked_games = {}])
    /\ UNCHANGED <<today_key, streakVars, pickVars, moreVars>>

\* the browser session is closed or the server process restarts: the next
\* script run starts from an empty st.session_state
RestartSession ==
    /\ gh.restarts < MaxRestarts
    /\ ss' = NewSession(today_key)
    /\ gh' = [gh EXCEPT !.last = NoEvent, !.restarts = @ + 1]
    /\ UNCHANGED <<today_key, db, streakVars, pickVars, moreVars>>

\* midnight passes
AdvanceDay ==
    /\ today_key < MaxDay
    /\ today_key' = today_key + 1
    /\ gh' = NewDayHistory(gh)
    /\ UNCHANGED <<db, ss, streakVars, pickVars, moreVars>>

Next ==
    \/ OpenMisje
    \/ ClickQuickDaily
    \/ ClickQuickBonus
    \/ ToggleFantasy
    \/ ClickCheck
    \/ ClickRetry
    \/ ClickFinish
    \/ ClickStay
    \/ ClickStartMission
    \/ Login
    \/ Logout
    \/ RestartSession
    \/ AdvanceDay

Spec ==
    Init /\ [][Next]_vars

\* ========================================================================
\* Discrete quiz level (core/app_helpers.py: skill_get_level, skill_update)
\* ========================================================================
\* the quiz keys the pages pass ("data_quiz" in pages/quiz_danych.py)
QuizKeys ==
    {"data_quiz"}

\* sum(last)
SeqSum(seq) ==
    LET RECURSIVE upto(_)
        upto(i) == IF i = 0 THEN 0 ELSE upto(i - 1) + seq[i]
    IN  upto(Len(seq))

\* last[-n:]
LastN(seq, n) ==
    IF Len(seq) <= n THEN seq ELSE SubSeq(seq, Len(seq) - n + 1, Len(seq))

\* _get_skill_profile(user): the user's profile document with a "skill" dict
_get_skill_profile(store, user) ==
    store[user]

\* _save_skill_profile(user, profile)
_save_skill_profile(store, user, profile) ==
    [store EXCEPT ![user] = profile]

\* profile["skill"].get(quiz_key, {}) read with the defaults level 1, last []
skill_record(profile, quiz_key) ==
    IF quiz_key \in DOMAIN profile.skill
    THEN profile.skill[quiz_key]
    ELSE [level |-> 1, last |-> <<>>]

skill_get_level(store, user, quiz_key) ==
    Max(1, Min(3, skill_record(_get_skill_profile(store, user), quiz_key).level))

\* skill_update(user, quiz_key, ok): the store it leaves and the level it returns.
\* acc >= 0.8 and acc <= 0.4 are compared as fractions: sum/len is 0.8 or 0.4
\* exactly when the float quotient is
skill_update(store, user, quiz_key, ok) ==
    LET profile == _get_skill_profile(store, user)
        q       == skill_record(profile, quiz_key)
        last    == LastN(Append(q.last, IF ok THEN 1 ELSE 0), 10)
        n       == Len(last)
        total   == SeqSum(last)
        lvl     == q.level
        lvl2    == IF n >= 5 /\ 10 * total >= 8 * n /\ lvl < 3
                   THEN lvl + 1
                   ELSE IF n >= 5 /\ 10 * total <= 4 * n /\ lvl > 1
                   THEN lvl - 1
                   ELSE lvl
        q2      == [level |-> lvl2, last |-> last]
        skill2  == [k \in DOMAIN profile.skill \cup {quiz_key} |->
                       IF k = quiz_key THEN q2 ELSE profile.skill[k]]
    IN  [store |-> _save_skill_profile(store, user, [profile EXCEPT !.skill = skill2]),
         lvl   |-> lvl2]

\* ------------------------------------------------------------------------
\* Specification SpecSkill: one user answers the questions of one quiz
\* ------------------------------------------------------------------------
InitSkill ==
    /\ SkillIdle
    /\ TabIdle
    /\ KvIdle
    /\ OwnerIdle
    /\ StreakIdle
    /\ PickIdle
    /\ AppIdle
    /\ LateIdle

SkillAnswer(ok) ==
    /\ Len(sk_fed) < MaxOutcomes
    /\ \E user \in Users, quiz_key \in QuizKeys :
          LET r == skill_update(sk_db, user, quiz_key, ok)
          IN  /\ sk_db' = r.store
              /\ sk_fed' = Append(sk_fed, ok)
              /\ sk_levels' = Append(sk_levels, r.lvl)
    /\ UNCHANGED <<streakVars, pickVars, appVars, kvVars, ownerVars, tabVars, lateVars>>

\* pages/quiz_danych.py: the answer is correct
CallSkillUpdateCorrect ==
    SkillAnswer(TRUE)

\* pages/quiz_danych.py: the answer is wrong
CallSkillUpdateWrong ==
    SkillAnswer(FALSE)

NextSkill ==
    \/ CallSkillUpdateCorrect
    \/ CallSkillUpdateWrong

SpecSkill ==
    InitSkill /\ [][NextSkill]_vars

\* ------------------------------------------------------------------------
\* Specification SpecKvs: threads call _save_users and _load_users
\* ------------------------------------------------------------------------
InitKvs ==
    /\ kv_cfg \in {"file", "db"}
    /\ kv_fcntl \in (IF kv_cfg = "file" THEN BOOLEAN ELSE {TRUE})
    /\ kv_table = NoRow
    /\ kv_path = 0
    /\ kv_files = <<>>
    /\ kv_lock = 0
    /\ kv_proc = [p \in KvThreads |-> KvIdleThread]
    /\ kv_hist = KvNoHistory
    /\ TabIdle
    /\ SkillIdle
    /\ OwnerIdle
    /\ StreakIdle
    /\ PickIdle
    /\ AppIdle
    /\ LateIdle

\* how a call to the database can end
KvOutcomes ==
    IF kv_cfg = "db" THEN {"ok", "connect_failed", "execute_failed"} ELSE {"none"}

\* the threads inside write_json_file_atomic, between taking and releasing the lock
KvWriting ==
    {p \in KvThreads : kv_proc[p].pc \in {"mkstemp", "dump", "replace", "unlock"}}

\* the threads inside _save_users
KvSaving ==
    {p \in KvThreads : kv_proc[p].pc \in {"lock", "mkstemp", "dump", "replace", "unlock"}}

\* _save_users(db), up to the call of write_json_file_atomic: kv_set_json
CallSaveUsers(p, data, outcome) ==
    /\ kv_proc[p].pc = "idle"
    /\ kv_hist.ops < MaxKvOps
    /\ LET r == IF kv_cfg = "db"
                THEN kv_set_json(kv_table, data, outcome)
                ELSE [table |-> kv_table, raised |-> FALSE]
       IN  /\ kv_table' = r.table
           /\ IF r.raised
              THEN /\ kv_proc' = kv_proc
                   /\ kv_hist' = [kv_hist EXCEPT
                          !.ops = @ + 1,
                          !.last = [KvNoCall EXCEPT !.op = "save", !.data = data,
                                        !.backend = outcome, !.raised = TRUE]]
              ELSE /\ kv_proc' = [q \in KvThreads |->
                          IF q = p
                          THEN [KvIdleThread EXCEPT !.pc = "lock", !.data = data,
                                                    !.backend = outcome,
                                                    !.quiet = (KvSaving = {})]
                          ELSE IF kv_proc[q].pc # "idle"
                          THEN [kv_proc[q] EXCEPT !.quiet = FALSE]
                          ELSE kv_proc[q]]
                   /\ kv_hist' = [kv_hist EXCEPT !.ops = @ + 1, !.dirty = TRUE]
    /\ UNCHANGED <<kv_cfg, kv_fcntl, kv_path, kv_files, kv_lock>>
    /\ UNCHANGED <<streakVars, pickVars, appVars, skillVars, ownerVars, tabVars, lateVars>>

\* write_json_file_atomic: with _file_lock(lock_path)
FileLock(p) ==
    /\ kv_proc[p].pc = "lock"
    /\ _file_lock(kv_lock, p, kv_fcntl)
    /\ kv_lock' = IF kv_fcntl THEN p ELSE kv_lock
    /\ kv_proc' = [kv_proc EXCEPT ![p].pc = "mkstemp"]
    /\ UNCHANGED <<kv_cfg, kv_fcntl, kv_table, kv_path, kv_files, kv_hist>>
    /\ UNCHANGED <<streakVars, pickVars, appVars, skillVars, ownerVars, tabVars, lateVars>>

\* write_json_file_atomic: tempfile.mkstemp creates a new empty file
MkStemp(p) ==
    /\ kv_proc[p].pc = "mkstemp"
    /\ kv_files' = Append(kv_files, <<>>)
    /\ kv_proc' = [kv_proc EXCEPT ![p].pc = "dump", ![p].fid = Len(kv_files) + 1]
    /\ UNCHANGED <<kv_cfg, kv_fcntl, kv_table, kv_path, kv_lock, kv_hist>>
    /\ UNCHANGED <<streakVars, pickVars, appVars, skillVars, ownerVars, tabVars, lateVars>>

\* write_json_file_atomic: json.dump, flush, fsync; one piece of the text
\* reaches the temporary file
JsonDump(p) ==
    /\ kv_proc[p].pc = "dump"
    /\ LET fid == kv_proc[p].fid
           text == JsonText(kv_proc[p].data)
           n == Len(kv_files[fid]) + 1
       IN  /\ kv_files' = [kv_files EXCEPT ![fid] = SubSeq(text, 1, n)]
           /\ kv_proc' = [kv_proc EXCEPT
                  ![p].pc = IF n = Len(text) THEN "replace" ELSE "dump"]
    /\ UNCHANGED <<kv_cfg, kv_fcntl, kv_table, kv_path, kv_lock, kv_hist>>
    /\ UNCHANGED <<streakVars, pickVars, appVars, skillVars, ownerVars, tabVars, lateVars>>

\* write_json_file_atomic: os.replace(tmp_path, path)
OsReplace(p) ==
    /\ kv_proc[p].pc = "replace"
    /\ kv_path' = kv_proc[p].fid
    /\ kv_proc' = [kv_proc EXCEPT ![p].pc = "unlock"]
    /\ UNCHANGED <<kv_cfg, kv_fcntl, kv_table, kv_files, kv_lock, kv_hist>>
    /\ UNCHANGED <<streakVars, pickVars, appVars, skillVars, ownerVars, tabVars, lateVars>>

\* write_json_file_atomic: the lock is released and _save_users returns
FileUnlock(p) ==
    /\ kv_proc[p].pc = "unlock"
    /\ kv_lock' = IF kv_lock = p THEN 0 ELSE kv_lock
    /\ kv_proc' = [kv_proc EXCEPT ![p] = KvIdleThread]
    /\ kv_hist' = [kv_hist EXCEPT
           !.saved = IF kv_proc[p].quiet THEN kv_proc[p].data ELSE @,
           !.dirty = ~kv_proc[p].quiet,
           !.restarted = FALSE,
           !.last = [KvNoCall EXCEPT !.op = "save", !.data = kv_proc[p].data,
                         !.backend = kv_proc[p].backend, !.wrote = TRUE]]
    /\ UNCHANGED <<kv_cfg, kv_fcntl, kv_table, kv_path, kv_files>>
    /\ UNCHANGED <<streakVars, pickVars, appVars, skillVars, ownerVars, tabVars, lateVars>>

\* _load_users(), up to json.load: kv_get_json, os.path.exists, open
CallLoadUsers(p, outcome) ==
    /\ kv_proc[p].pc = "idle"
    /\ kv_hist.ops < MaxKvOps
    /\ LET row == IF kv_cfg = "db" THEN kv_get_json(kv_table, outcome) ELSE NoRow
           call == [KvNoCall EXCEPT !.op = "load", !.backend = outcome,
                        !.expect = kv_hist.saved, !.quiet = ~kv_hist.dirty,
                        !.restarted = kv_hist.restarted]
       IN  IF row # NoRow
           THEN /\ kv_proc' = kv_proc
                /\ kv_hist' = [kv_hist EXCEPT !.ops = @ + 1,
                       !.last = [call EXCEPT !.data = row, !.src = "db"]]
           ELSE IF kv_path = 0
           THEN /\ kv_proc' = kv_proc
                /\ kv_hist' = [kv_hist EXCEPT !.ops = @ + 1,
                       !.last = [call EXCEPT !.data = EmptyDict, !.src = "default"]]
           ELSE /\ kv_proc' = [kv_proc EXCEPT ![p] =
                       [KvIdleThread EXCEPT !.pc = "read", !.fid = kv_path,
                            !.backend = outcome, !.expect = call.expect,
                            !.quiet = call.quiet, !.restarted = call.restarted]]
                /\ kv_hist' = [kv_hist EXCEPT !.ops = @ + 1]
    /\ UNCHANGED <<kv_cfg, kv_fcntl, kv_table, kv_path, kv_files, kv_lock>>
    /\ UNCHANGED <<streakVars, pickVars, appVars, skillVars, ownerVars, tabVars, lateVars>>

\* read_json_file: json.load(f) on the open file, and _load_users returns
JsonLoad(p) ==
    /\ kv_proc[p].pc = "read"
    /\ LET text == kv_files[kv_proc[p].fid]
       IN  kv_hist' = [kv_hist EXCEPT
               !.last = [KvNoCall EXCEPT !.op = "load",
                             !.data = load_users_file(text), !.raw = text,
                             !.src = "file", !.backend = kv_proc[p].backend,
                             !.expect = kv_proc[p].expect,
                             !.quiet = kv_proc[p].quiet,
                             !.restarted = kv_proc[p].restarted]]
    /\ kv_proc' = [kv_proc EXCEPT ![p] = KvIdleThread]
    /\ UNCHANGED <<kv_cfg, kv_fcntl, kv_table, kv_path, kv_files, kv_lock>>
    /\ UNCHANGED <<streakVars, pickVars, appVars, skillVars, ownerVars, tabVars, lateVars>>

\* the process stops and starts again: its threads and their locks are gone,
\* the database and the files stay
KvRestart ==
    /\ kv_hist.restarts < MaxKvRestarts
    /\ kv_proc' = [p \in KvThreads |-> KvIdleThread]
    /\ kv_lock' = 0
    /\ kv_hist' = [kv_hist EXCEPT !.restarts = @ + 1, !.restarted = TRUE]
    /\ UNCHANGED <<kv_cfg, kv_fcntl, kv_table, kv_path, kv_files>>
    /\ UNCHANGED <<streakVars, pickVars, appVars, skillVars, ownerVars, tabVars, lateVars>>

NextKvs ==
    \/ \E p \in KvThreads, data \in KvDocs, outcome \in KvOutcomes :
          CallSaveUsers(p, data, outcome)
    \/ \E p \in KvThreads : FileLock(p)
    \/ \E p \in KvThreads : MkStemp(p)
    \/ \E p \in KvThreads : JsonDump(p)
    \/ \E p \in KvThreads : OsReplace(p)
    \/ \E p \in KvThreads : FileUnlock(p)
    \/ \E p \in KvThreads, outcome \in KvOutcomes : CallLoadUsers(p, outcome)
    \/ \E p \in KvThreads : JsonLoad(p)
    \/ KvRestart

SpecKvs ==
    InitKvs /\ [][NextKvs]_vars

\* ------------------------------------------------------------------------
\* Specification SpecOwner: one browser session whose user changes between a
\* guest and an account, and what its script runs leave in mc
\* ------------------------------------------------------------------------
\* a guest (pages/misje.py names guests "Gosc-<number>") and an account
OwnerIdentities ==
    {"Gosc-1", "ala"}

is_guest_user(user) ==
    user = "Gosc-1"

InitOwner ==
    /\ mo_user = NoUser
    /\ mo_mc = mc_default(1)
    /\ mo_day = 1
    /\ mo_last = NoRun
    /\ TabIdle
    /\ SkillIdle
    /\ KvIdle
    /\ StreakIdle
    /\ PickIdle
    /\ AppIdle
    /\ LateIdle

\* a script run: ensure_session_defaults migrates mc, the page then leaves `mc`
OwnerRun(kind, changed, mc) ==
    /\ mo_mc' = mc
    /\ mo_last' = [kind |-> kind, changed |-> changed, day |-> mo_day,
                   pre |-> mo_mc,
                   migrated |-> mc_migrate(mo_mc, mo_day)]
    /\ UNCHANGED <<streakVars, pickVars, appVars, skillVars, kvVars, tabVars, lateVars>>

\* pages/start.py: the page shows a pending bonus finish_reward and drops it;
\* the user stays, logs in, logs out or starts the guest mode
OpenStart(user) ==
    /\ mo_user' = user
    /\ mo_day' = mo_day
    /\ OwnerRun("start", FALSE,
                [mc_migrate(mo_mc, mo_day) EXCEPT !.bonus.finish_reward = FALSE])

\* a page that does not touch mc
OpenOtherPage ==
    /\ UNCHANGED <<mo_user, mo_day>>
    /\ OwnerRun("other", FALSE, mc_migrate(mo_mc, mo_day))

\* pages/misje.py opened with no missions_view: the head of render()
EnterMisje ==
    /\ mo_user # NoUser
    /\ UNCHANGED <<mo_user, mo_day>>
    /\ LET mc0 == mc_migrate(mo_mc, mo_day)
           changed == mc0._user # mo_user
       IN  OwnerRun("misje", changed,
                    IF changed
                    THEN user_change_reset(mc0, mo_user, is_guest_user(mo_user))
                    ELSE [mc0 EXCEPT !.daily.df_used = TRUE,
                                     !.daily._fantasy_mode = "off"])

\* the runs below are runs of pages/misje.py by the owner of mc on mc's day
OwnerPlays ==
    /\ mo_user # NoUser
    /\ mo_mc._user = mo_user
    /\ mo_mc.today = mo_day
    /\ mo_mc.daily.df_used
    /\ UNCHANGED <<mo_user, mo_day>>

\* "Misja dnia": the intent missions_view = "daily"
OwnerStartsDaily ==
    /\ OwnerPlays
    /\ OwnerRun("intent", FALSE, apply_view(mo_mc, "daily"))

\* "Misje bonusowe": the intent missions_view = "bonus"
OwnerStartsBonus ==
    /\ OwnerPlays
    /\ OwnerRun("intent", FALSE, apply_view(mo_mc, "bonus"))

\* render_daily, steps 0 and 1: a correct answer is rewarded once (guests
\* too) and the next question follows
OwnerAnswersDaily ==
    /\ OwnerPlays
    /\ mo_mc.mode = "daily"
    /\ mo_mc.step < 2
    /\ ~mo_mc.daily.finish_reward
    /\ OwnerRun("answer", FALSE,
                [mo_mc EXCEPT !.daily.q = TRUE,
                              !.daily.q_rewarded = @ \cup
                                  {<<mo_day, IF mo_mc.step = 0 THEN "q1" ELSE "q2">>},
                              !.step = @ + 1])

\* render_daily, step 2: "Zakoncz misje dnia"
OwnerFinishesDaily ==
    /\ OwnerPlays
    /\ mo_mc.mode = "daily"
    /\ mo_mc.step = 2
    /\ ~mo_mc.daily.finish_reward
    /\ OwnerRun("finish", FALSE,
                [mo_mc EXCEPT !.daily.rewarded_day = mo_day,
                              !.daily.finish_reward = TRUE,
                              !.mode = "done"])

\* the bonus pack: "Nastepne" moves the cursor, the last task ends the pack
OwnerAnswersBonus ==
    /\ OwnerPlays
    /\ mo_mc.mode = "bonus"
    /\ mo_mc.bonus.done_day # mo_day
    /\ OwnerRun("bonus", FALSE,
                IF mo_mc.bonus.active_i < 2
                THEN [mo_mc EXCEPT !.bonus.active_i = @ + 1, !.bonus.ui = TRUE]
                ELSE [mo_mc EXCEPT !.bonus.done_day = mo_day,
                                   !.bonus.finish_reward = TRUE])

\* midnight passes
OwnerNextDay ==
    /\ mo_day < MaxOwnerDay
    /\ mo_day' = mo_day + 1
    /\ UNCHANGED <<mo_user, mo_mc, mo_last>>
    /\ UNCHANGED <<streakVars, pickVars, appVars, skillVars, kvVars, tabVars, lateVars>>

NextOwner ==
    \/ \E user \in OwnerIdentities \cup {NoUser} : OpenStart(user)
    \/ OpenOtherPage
    \/ EnterMisje
    \/ OwnerStartsDaily
    \/ OwnerStartsBonus
    \/ OwnerAnswersDaily
    \/ OwnerFinishesDaily
    \/ OwnerAnswersBonus
    \/ OwnerNextDay

SpecOwner ==
    InitOwner /\ [][NextOwner]_vars

\* ------------------------------------------------------------------------
\* Specification SpecTabs: one account open in two browser tabs; ss is the
\* session of the tab whose script runs, pf_other the session of the other
\* ------------------------------------------------------------------------
\* XP_SCHOOL_TASK of core/config.py
XP_SCHOOL_TASK ==
    2

\* SAPER_UNLOCK_COST of pages/skrzynka.py
SAPER_UNLOCK_COST ==
    5

\* the bonus tasks of the day
TaskIds ==
    {"t1", "t2"}

\* the account has earned gems and a freeze before, or not; both tabs have
\* logged in
InitTabs ==
    /\ today_key = 1
    /\ \E gems \in {0, SAPER_UNLOCK_COST}, freezes \in {0, 1} :
          db = [u \in Users |-> [NewProfile EXCEPT !.gems = gems,
                                                   !.retention.freezes = freezes]]
    /\ \E u \in Users :
          ss = load_profile_to_session(
                   [db |-> db, ss |-> NewSession(1), gh |-> NoHistory,
                    due |-> FALSE, handled |-> FALSE, info |-> NoInfo,
                    screen |-> "none"], u).ss
    /\ pf_other = ss
    /\ gh = NoHistory
    /\ pf_last = NoTabCall
    /\ StreakIdle
    /\ PickIdle
    /\ SkillIdle
    /\ KvIdle
    /\ OwnerIdle
    /\ LateIdle

\* a call made by the script of the running tab, which leaves w
TabCall(kind, w, nested, after_nested) ==
    /\ pf_last.n < MaxTabCalls
    /\ Commit([w EXCEPT !.gh = NoHistory])
    /\ pf_last' = [kind |-> kind, n |-> pf_last.n + 1, before |-> db[ss.user],
                   nested |-> nested, after_nested |-> after_nested,
                   spent |-> (pf_last.spent \/ w.ss.gems < ss.gems)]
    /\ UNCHANGED <<today_key, pf_other>>
    /\ UNCHANGED <<streakVars, pickVars, skillVars, kvVars, ownerVars, lateVars>>

CallAddXp ==
    \E due \in BOOLEAN :
        TabCall("add_xp", add_xp(World(due), XpDailyStep, today_key),
                FALSE, db[ss.user])

\* pages/misje.py, bonus pack: a correct answer to a task
CallMarkTaskDone ==
    \E due \in BOOLEAN, tid \in TaskIds :
        LET w0   == World(due)
            user == ss.user
            key  == <<today_key, "matematyka", tid>>
            new  == key \notin db[user].school_tasks
        IN  TabCall("mark_task_done",
                    mark_task_done(w0, user, "matematyka", tid, XP_SCHOOL_TASK,
                                   today_key),
                    new,
                    add_xp(w0, XP_SCHOOL_TASK, today_key).db[user])

CallMarkDailyDoneInTab ==
    TabCall("mark_daily_done", mark_daily_done(World(FALSE), ss.user, today_key),
            FALSE, db[ss.user])

\* pages/misje.py, HUD: the freeze tutorial is shown once
CallPatchProfile ==
    LET ret == db[ss.user].retention
    IN  /\ ret.freezes > 0
        /\ ~ret.freeze_tutorial_seen
        /\ TabCall("patch_profile",
                   patch_profile(World(FALSE), ss.user,
                                 [ret EXCEPT !.freeze_tutorial_seen = TRUE]),
                   FALSE, db[ss.user])

\* pages/skrzynka.py: "Odblokuj za"
CallUnlockGame ==
    \E due \in BOOLEAN :
        TabCall("unlock_game", unlock_game(World(due), "saper", SAPER_UNLOCK_COST),
                FALSE, db[ss.user])

\* save_progress(): the session is written at once
CallSaveProgress ==
    TabCall("save_progress", save_progress(World(FALSE)), FALSE, db[ss.user])

\* the user turns to the other tab
SwitchTab ==
    /\ ss' = pf_other
    /\ pf_other' = ss
    /\ UNCHANGED <<today_key, db, gh, pf_last>>
    /\ UNCHANGED <<streakVars, pickVars, skillVars, kvVars, ownerVars, lateVars>>

NextTabs ==
    \/ CallAddXp
    \/ CallMarkTaskDone
    \/ CallMarkDailyDoneInTab
    \/ CallPatchProfile
    \/ CallUnlockGame
    \/ CallSaveProgress
    \/ SwitchTab

SpecTabs ==
    InitTabs /\ [][NextTabs]_vars

\* the navigation intents a run of the mission page can find in the session
\* state, as <<missions_view, _force_daily_once, force_daily_until running>>:
\* none, the views render accepts, the quick buttons of the mission page, the
\* start button of pages/start.py and the subject buttons
MisjeIntents ==
    {<<"none", FALSE, FALSE>>, <<"daily", FALSE, FALSE>>,
     <<"daily", TRUE, FALSE>>, <<"daily", TRUE, TRUE>>,
     <<"bonus", FALSE, FALSE>>, <<"done", FALSE, FALSE>>,
     <<"subject", FALSE, FALSE>>}

\* ========================================================================
\* The controller schema over arbitrary session values (core/mc_state.py and
\* the head of render in pages/misje.py).  Values of st.session_state["mc"]
\* are Python values: a dict is PyDict(f) with f a function on the keys it has
\* ========================================================================
PyNone ==
    [t |-> "none", v |-> 0]

PyBool(b) ==
    [t |-> "bool", v |-> b]

\* the dict without any key
NoKeys ==
    [k \in {} |-> PyNone]

\* bool(value)
py_truthy(value) ==
    CASE value.t = "none" -> FALSE
      [] value.t = "bool" -> value.v
      [] value.t = "int"  -> value.v # 0
      [] value.t = "str"  -> value.v # ""
      [] value.t = "dict" -> DOMAIN value.v # {}
      [] value.t = "list" -> value.v # <<>>

\* how many values the step cursor and the task cursor take in the inputs
MaxCursor ==
    3

\* str(n) for the integers of the inputs
IntText ==
    [n \in -1..(MaxCursor + 1) |->
        IF n = -1 THEN "-1" ELSE IF n = 0 THEN "0" ELSE IF n = 1 THEN "1"
        ELSE IF n = 2 THEN "2" ELSE IF n = 3 THEN "3" ELSE IF n = 4 THEN "4"
        ELSE "5"]

\* str(value)
py_str(value) ==
    CASE value.t = "str"  -> value.v
      [] value.t = "int"  -> IntText[value.v]
      [] value.t = "none" -> "None"
      [] value.t = "bool" -> IF value.v THEN "True" ELSE "False"
      [] value.t = "dict" -> "{...}"
      [] value.t = "list" -> "[...]"

\* a conversion that moves an integer cursor on by one
py_int_or_0_moves(value) ==
    IF value.t = "int" THEN Min(value.v + 1, MaxCursor + 1) ELSE 0

\* int(value or 0) inside try/except: 0 when int() raises
py_int_or_0(value) ==
    IF ~py_truthy(value) THEN 0
    ELSE CASE value.t = "int"  -> value.v
           [] value.t = "bool" -> 1
           [] value.t = "str"  ->
                  IF \E n \in DOMAIN IntText : IntText[n] = value.v
                  THEN CHOOSE n \in DOMAIN IntText : IntText[n] = value.v
                  ELSE 0
           [] OTHER -> 0

\* d.get(k)
Get(d, k) ==
    IF k \in DOMAIN d THEN d[k] ELSE PyNone

\* d[k] = value
Put(d, k, value) ==
    [x \in DOMAIN d \cup {k} |-> IF x = k THEN value ELSE d[x]]

\* d.pop(k, None) for every k of ks
PopAll(d, ks) ==
    [x \in DOMAIN d \ ks |-> d[x]]

\* a.update(b)
DictUpdate(a, b) ==
    [x \in DOMAIN a \cup DOMAIN b |-> IF x \in DOMAIN b THEN b[x] ELSE a[x]]

\* mc_state._as_dict(x): the keys of x, none when x is not a dict
_as_dict(x) ==
    IF x.t = "dict" THEN x.v ELSE NoKeys

MC_SCHEMA_VERSION ==
    1

\* mc_state.mc_default(today) as the Python dict it returns
mc_default_py(today) ==
    PyDict(
        "v" :> PyInt(MC_SCHEMA_VERSION) @@
        "today" :> PyStr(today) @@
        "mode" :> PyStr("daily") @@
        "step" :> PyInt(0) @@
        "locked" :> PyBool(FALSE) @@
        "daily" :> PyDict("q" :> EmptyDict @@ "ui" :> EmptyDict @@
                          "toast" :> PyNone @@ "rewarded" :> PyBool(FALSE) @@
                          "df_used" :> PyNone) @@
        "bonus" :> PyDict("ui" :> EmptyDict @@ "toast" :> PyNone @@
                          "active_i" :> PyInt(0) @@ "done_day" :> PyNone @@
                          "finish_reward" :> PyNone))

\* a value that is not a dict becomes {}
DictOrEmpty(value) ==
    IF value.t = "dict" THEN value ELSE EmptyDict

\* mc_state.mc_migrate(existing, today) on any Python value
mc_migrate_py(existing, today) ==
    LET base == mc_default_py(today)
        cur  == _as_dict(existing)
    IN  IF DOMAIN cur = {}
        THEN base
        ELSE
        LET copied == [k \in {"today", "mode", "step", "locked", "_user", "subject"}
                                \cap DOMAIN cur |-> cur[k]]
            o1     == DictUpdate(base.v, copied)
            daily1 == DictUpdate(base.v["daily"].v, _as_dict(Get(cur, "daily")))
            bonus1 == DictUpdate(base.v["bonus"].v, _as_dict(Get(cur, "bonus")))
            daily2 == [daily1 EXCEPT !["q"] = DictOrEmpty(@),
                                     !["ui"] = DictOrEmpty(@)]
            bonus2 == [bonus1 EXCEPT !["ui"] = DictOrEmpty(@),
                                     !["active_i"] = PyInt(py_int_or_0(@))]
            o2     == [o1 EXCEPT
                          !["v"] = PyInt(MC_SCHEMA_VERSION),
                          !["today"] = PyStr(IF py_truthy(@) THEN py_str(@) ELSE today),
                          !["mode"] = PyStr(IF py_truthy(@) THEN py_str(@) ELSE "daily"),
                          !["step"] = PyInt(py_int_or_0(@)),
                          !["locked"] = PyBool(py_truthy(@)),
                          !["daily"] = PyDict(daily2),
                          !["bonus"] = PyDict(bonus2)]
            pending == bonus2["finish_reward"]
        IN  IF o2["today"].v # today
            THEN IF py_truthy(pending)
                 THEN PyDict([base.v EXCEPT !["bonus"].v["finish_reward"] = pending])
                 ELSE base
            ELSE PyDict(o2)

\* a render that keeps whatever mode it finds when no view is requested
mode_without_intent_keeps(mode, guest) ==
    mode

\* render(), view is None: the mode the run goes on with
mode_without_intent(mode, guest) ==
    IF guest
    THEN IF mode \notin {"bonus", "subject", "daily"} THEN "daily" ELSE mode
    ELSE IF mode \notin {"daily", "bonus", "done", "subject"} THEN "free" ELSE mode

\* render() of pages/misje.py from ensure_mc_state to the end of the intent
\* handling, for `user` and the intent <<view, once, until>> (until: the run
\* starts before force_daily_until).  The result is the controller state the
\* run stores and whether the run got past the intent handling
render_head(existing, today, user, view, once, until) ==
    LET guest   == is_guest_user(user)
        mc0     == mc_migrate_py(existing, today).v
        changed == Get(mc0, "_user") # PyStr(user)
        reset   == [Put(mc0, "_user", PyStr(user)) EXCEPT
                       !["mode"] = PyStr(IF guest THEN "daily" ELSE "free"),
                       !["step"] = PyInt(0),
                       !["daily"] = PyDict(PopAll(@.v,
                           {"toast", "rewarded", "q", "ui", "interstitial",
                            "finish_reward"})),
                       !["bonus"] = PyDict(Put(PopAll(@.v,
                           {"toast", "ui", "interstitial", "finish_reward",
                            "done_day"}), "active_i", PyInt(0)))]
        mc1     == IF changed THEN reset ELSE mc0
        restart == [mc1 EXCEPT
                       !["mode"] = PyStr("daily"),
                       !["step"] = PyInt(0),
                       !["daily"] = PyDict(PopAll(@.v,
                           {"q", "ui", "toast", "rewarded", "interstitial",
                            "finish_reward", "rewarded_day"}))]
        mc2     == IF view = "daily"
                   THEN [mc1 EXCEPT
                            !["mode"] = PyStr("daily"),
                            !["daily"] = PyDict(PopAll(@.v,
                                {"q", "ui", "toast", "rewarded", "interstitial",
                                 "finish_reward"}))]
                   ELSE IF view = "bonus"
                   THEN [mc1 EXCEPT
                            !["mode"] = PyStr("bonus"),
                            !["bonus"] = PyDict(Put(PopAll(@.v,
                                {"toast", "interstitial", "finish_reward"}),
                                "active_i",
                                PyInt(py_int_or_0(Get(@.v, "active_i")))))]
                   ELSE IF view = "done"
                   THEN [mc1 EXCEPT !["mode"] = PyStr("done")]
                   ELSE IF view = "subject"
                   THEN Put([mc1 EXCEPT !["mode"] = PyStr("subject")],
                            "subject", PyStr("bonus_subject"))
                   ELSE [mc1 EXCEPT !["mode"] = PyStr(mode_without_intent(@.v, guest))]
        mc3     == IF once
                   THEN [mc2 EXCEPT
                            !["mode"] = PyStr("daily"),
                            !["step"] = PyInt(0),
                            !["daily"] = PyDict(PopAll(@.v,
                                {"q", "ui", "toast", "rewarded", "interstitial",
                                 "finish_reward", "rewarded_day"}))]
                   ELSE mc2
        mc4     == [mc3 EXCEPT
                       !["mode"] = PyStr("daily"),
                       !["step"] = PyInt(0),
                       !["daily"] = PyDict(PopAll(@.v,
                           {"q", "ui", "toast", "rewarded", "interstitial",
                            "finish_reward", "rewarded_day"}))]
    IN  IF changed /\ view = "none"
        THEN [mc |-> PyDict(mc1), processed |-> FALSE]
        ELSE IF ~guest /\ until
        THEN [mc |-> PyDict(mc4), processed |-> FALSE]
        ELSE [mc |-> PyDict([mc3 EXCEPT !["locked"] = PyBool(FALSE)]),
              processed |-> TRUE]

\* render_daily: a step cursor outside 0, 1, 2
bad_step_reset(mc) ==
    PyDict([mc.v EXCEPT !["step"] = PyInt(0),
                        !["daily"] = PyDict(PopAll(@.v, {"q", "ui", "toast"}))])

\* ========================================================================
\* Specification SpecMc: ensure_mc_state, the head of render and the step
\* check of render_daily applied to any value a session can hold under "mc"
\* ========================================================================
McDays ==
    {"d1", "d2"}

\* nothing, or the key with one of the values
Field(k, values) ==
    {NoKeys} \cup {k :> value : value \in values}

\* the values st.session_state["mc"] holds at the start: None, {} and dicts
\* of this and of other schema versions, with and without each key, with
\* values of the expected and of other types
McStored ==
    {PyNone, EmptyDict} \cup
    { PyDict(v @@ today @@ mode @@ step @@ user @@ daily @@ bonus) :
        v      \in Field("v", {PyInt(MC_SCHEMA_VERSION), PyInt(MC_SCHEMA_VERSION + 1)}),
        today  \in Field("today", {PyStr(d) : d \in McDays}),
        mode   \in Field("mode", {PyStr("daily"), PyStr("done"), PyStr("free"),
                                  PyStr("menu"), PyNone}),
        step   \in Field("step", {PyInt(n) : n \in -1..MaxCursor} \cup {PyStr("x")}),
        user   \in Field("_user", {PyStr(u) : u \in OwnerIdentities}),
        daily  \in Field("daily",
                     {PyNone,
                      PyDict("q" :> PyStr("x") @@
                             "ui" :> PyDict("q1_feedback" :> PyStr("ok")) @@
                             "rewarded" :> PyBool(TRUE) @@
                             "q_rewarded" :> PyDict("d1::q1" :> PyBool(TRUE)))}),
        bonus  \in Field("bonus",
                     {PyDict("active_i" :> PyStr("2") @@
                             "finish_reward" :> PyStr("chest"))}) }

\* the value is a controller state of another schema version, or one whose
\* step cursor is an integer outside 0..2
Corrupt(x) ==
    /\ x.t = "dict"
    /\ \/ "v" \in DOMAIN x.v /\ x.v["v"] # PyInt(MC_SCHEMA_VERSION)
       \/ /\ "step" \in DOMAIN x.v
          /\ x.v["step"].t = "int"
          /\ x.v["step"].v \notin {0, 1, 2}

\* what the history keeps of an operation on the stored value `pre` that left
\* `post`: whether pre was corrupt, the mode it held, whether it was owned by
\* the user of the run, whether the operation changed it
McOp(kind, pre, post, day, user, view, processed) ==
    [kind |-> kind, day |-> day, user |-> user, view |-> view,
     processed |-> processed,
     corrupt |-> Corrupt(pre),
     mode |-> Get(_as_dict(pre), "mode"),
     owned |-> Get(_as_dict(pre), "_user") = PyStr(user),
     changed |-> pre # post]

NoMcOp ==
    McOp("none", PyNone, PyNone, "d1", NoUser, "none", FALSE)

InitMc ==
    /\ mg_x \in McStored
    /\ mg_day = "d1"
    /\ mg_last = NoMcOp
    /\ StreakIdle
    /\ PickIdle
    /\ AppIdle
    /\ SkillIdle
    /\ KvIdle
    /\ OwnerIdle
    /\ TabIdle
    /\ AfterMcIdle

\* ensure_mc_state(today)
CallEnsureMcState ==
    /\ mg_x' = mc_migrate_py(mg_x, mg_day)
    /\ mg_last' = McOp("migrate", mg_x, mg_x', mg_day, NoUser, "none", FALSE)
    /\ UNCHANGED <<mg_day, streakVars, pickVars, appVars, skillVars, kvVars,
                   ownerVars, tabVars, afterMcVars>>

\* a run of the mission page up to the end of the intent handling
RenderHead ==
    /\ \E user \in OwnerIdentities, intent \in MisjeIntents :
          LET r == render_head(mg_x, mg_day, user, intent[1], intent[2], intent[3])
          IN  /\ mg_x' = r.mc
              /\ mg_last' = McOp("intent", mg_x, r.mc, mg_day, user, intent[1],
                                 r.processed)
    /\ UNCHANGED <<mg_day, streakVars, pickVars, appVars, skillVars, kvVars,
                   ownerVars, tabVars, afterMcVars>>

\* the run goes on into render_daily of a logged-in user whose daily mission
\* is not done, and finds the step cursor outside 0, 1, 2
RenderDailyBadStep ==
    /\ mg_last.kind = "intent"
    /\ mg_last.processed
    /\ ~is_guest_user(mg_last.user)
    /\ mg_x.v["mode"].v \notin {"bonus", "done", "free", "subject"}
    /\ mg_x.v["step"].v \notin {0, 1, 2}
    /\ mg_x' = bad_step_reset(mg_x)
    /\ mg_last' = McOp("bad_step", mg_x, mg_x', mg_day, mg_last.user, "none", TRUE)
    /\ UNCHANGED <<mg_day, streakVars, pickVars, appVars, skillVars, kvVars,
                   ownerVars, tabVars, afterMcVars>>

\* midnight passes
McNextDay ==
    /\ mg_day = "d1"
    /\ mg_day' = "d2"
    /\ mg_last' = NoMcOp
    /\ UNCHANGED <<mg_x, streakVars, pickVars, appVars, skillVars, kvVars,
                   ownerVars, tabVars, afterMcVars>>

NextMc ==
    \/ CallEnsureMcState
    \/ RenderHead
    \/ RenderDailyBadStep
    \/ McNextDay

SpecMc ==
    InitMc /\ [][NextMc]_vars

\* ========================================================================
\* Bonus missions of a logged-in user (render_bonus of pages/misje.py) with
\* no bonus_subject chosen: the pack is drawn by _logged_bonus_pack
\* ========================================================================
\* how many tasks tasks.json holds for the user's age group
MaxBonusTasks ==
    4
\* the calendar day of the bonus runs, as days since 2025-01-01
BonusDay ==
    1
\* _logged_bonus_pack(k=3)
BonusPackSize ==
    3

\* the tasks of tasks.json for the age group, in file order
BonusPool ==
    [i \in 1..MaxBonusTasks |-> i]

BonusTasks ==
    1..MaxBonusTasks

\* the tasks whose dict has none of "correct", "answer", "a"
NoKeyTasks ==
    {1}

\* mc["bonus"] of mc_default plus the keys render_bonus adds; ui[tid] is
\* "none" (not checked), "ok" ({"checked": True, "ok": True}) or "bad";
\* finish_reward is "none", "generic" (Nagroda za bonusy) or "mega"
bonus_default ==
    [active_i |-> 0, ui |-> [t \in BonusTasks |-> "none"], done_day |-> NoDay,
     finish_reward |-> "none", master_reward_day |-> NoDay]

\* _logged_bonus_pack: the tasks not yet done today, else the whole pool
bonus_base(done) ==
    LET fresh == SelectSeq(BonusPool, LAMBDA t : t \notin done)
    IN  IF fresh # <<>> THEN fresh ELSE BonusPool

\* _logged_bonus_pack: pick_daily_chunk(base, k, salt=...); perm is the
\* permutation the day's seed applies to a list as long as base
_logged_bonus_pack(done, day, perm) ==
    pick_daily_chunk(bonus_base(done), BonusPackSize, day, perm)

\* _bonus_all_done_today(u) over the pack of the run
_bonus_all_done_today(pack, done) ==
    \A i \in 1..Len(pack) : pack[i] \in done

\* which part of render_bonus draws: the chest, the "done for today" notice,
\* the feedback with its navigation, or the question
bonus_screen(b, day, pack) ==
    IF b.finish_reward # "none" THEN "chest"
    ELSE IF b.done_day = day THEN "notice"
    ELSE LET i == Max(0, Min(b.active_i, Len(pack) - 1))
         IN  IF b.ui[pack[i + 1]] # "none" THEN "feedback" ELSE "question"

\* render_bonus down to the widgets: the cursor is clamped into the pack when
\* the run gets past the chest and the notice
bonus_draw(b, day, pack) ==
    IF bonus_screen(b, day, pack) \in {"chest", "notice"}
    THEN b
    ELSE [b EXCEPT !.active_i = Max(0, Min(@, Len(pack) - 1))]

\* mutant: the navigation is drawn after any checked answer
can_go_next_always(done_today, ok, has_key) ==
    TRUE

\* can_go_next = done_today or ui.ok is True or correct_text is None
can_go_next(done_today, ok, has_key) ==
    done_today \/ ok \/ ~has_key

\* the handler of "Sprawdz"; right: the chosen answer equals the key.
\* Returns the controller, the ledger and whether the master reward was granted
bonus_check(b, done, day, pack, right) ==
    LET active_i   == b.active_i
        total      == Len(pack)
        tid        == pack[active_i + 1]
        ok         == IF tid \in NoKeyTasks THEN TRUE ELSE right
        done_today == _bonus_all_done_today(pack, done)
        b1         == [b EXCEPT !.ui[tid] = IF ok THEN "ok" ELSE "bad"]
        rewarded   == ok /\ ~done_today
        done1      == IF rewarded THEN done \cup {tid} ELSE done
        complete   == rewarded /\ _bonus_all_done_today(pack, done1)
        master     == complete /\ b1.master_reward_day # day
        b2         == IF master
                      THEN [b1 EXCEPT !.master_reward_day = day,
                                      !.finish_reward = "mega"]
                      ELSE b1
        b3         == IF complete THEN [b2 EXCEPT !.done_day = day] ELSE b2
        b4         == IF ok /\ active_i >= total - 1
                      THEN [b3 EXCEPT !.done_day = day,
                                      !.finish_reward =
                                          IF @ = "none" THEN "generic" ELSE @]
                      ELSE IF ok
                      THEN [b3 EXCEPT !.active_i = Min(active_i + 1, total - 1)]
                      ELSE b3
    IN  [b |-> b4, done |-> done1, master |-> master, rewarded |-> rewarded]

\* the latest run of render_bonus: the clicked widget, the task under the
\* cursor, whether the handler moved the cursor forward, whether the task's
\* key was matched (now or by the stored feedback), whether the task has no
\* key, and whether the task was in the ledger before the run
BonusRun(kind, tid, moved, correct, nokey, completed) ==
    [kind |-> kind, tid |-> tid, moved |-> moved, correct |-> correct,
     nokey |-> nokey, completed |-> completed]

NoBonusRun ==
    BonusRun("none", 0, FALSE, FALSE, FALSE, FALSE)

\* the pack of the run in progress
BonusPack ==
    bn_pack

BonusScreen ==
    bonus_screen(bn_mc, BonusDay, BonusPack)

\* the packs _logged_bonus_pack can return: the shuffle is a function of the
\* day's seed and of the length of the list
BonusPacks(done, day) ==
    {_logged_bonus_pack(done, day, perm) : perm \in Perms(Len(bonus_base(done)))}

\* the tasks of a pack
PackTasks(pack) ==
    {pack[i] : i \in 1..Len(pack)}

\* st.rerun(): the next run draws the pack again and renders.  The ledger
\* only grows during the day, so a list of tasks not yet done is shuffled for
\* the first time when the ledger has changed
BonusRerun(b, done) ==
    /\ bn_done' = done
    /\ bn_pack' \in (IF done = bn_done THEN {bn_pack}
                     ELSE BonusPacks(done, BonusDay))
    /\ bn_mc' = bonus_draw(b, BonusDay, bn_pack')

InitBonus ==
    /\ bn_done \in {{}, BonusTasks}
    /\ bn_pack \in BonusPacks(bn_done, BonusDay)
    /\ bn_mc = bonus_default
    /\ bn_last = NoBonusRun
    /\ bn_n = [masters |-> 0, answered |-> {},
               first |-> PackTasks(bn_pack)]
    /\ StreakIdle
    /\ PickIdle
    /\ AppIdle
    /\ SkillIdle
    /\ KvIdle
    /\ OwnerIdle
    /\ TabIdle
    /\ McIdle
    /\ AfterBonusIdle

\* "Sprawdz" with a chosen answer
BonusCheck ==
    /\ BonusScreen = "question"
    /\ \E right \in BOOLEAN :
          LET tid == BonusPack[bn_mc.active_i + 1]
              r   == bonus_check(bn_mc, bn_done, BonusDay, BonusPack, right)
          IN  /\ BonusRerun(r.b, r.done)
              /\ bn_last' = BonusRun("check", tid, r.b.active_i > bn_mc.active_i,
                                     right /\ tid \notin NoKeyTasks,
                                     tid \in NoKeyTasks, tid \in bn_done)
              /\ bn_n' = [bn_n EXCEPT
                            !.masters = IF r.master THEN Count(@) ELSE @,
                            !.answered = IF r.rewarded THEN @ \cup {tid} ELSE @]
    /\ UNCHANGED <<streakVars, pickVars, appVars, skillVars, kvVars, ownerVars,
                   tabVars, mcVars, afterBonusVars>>

\* "Popraw odpowiedz" under a wrong answer
BonusRetry ==
    /\ BonusScreen = "feedback"
    /\ LET tid == BonusPack[bn_mc.active_i + 1]
       IN  /\ tid \notin NoKeyTasks
           /\ bn_mc.ui[tid] = "bad"
           /\ BonusRerun([bn_mc EXCEPT !.ui[tid] = "none"], bn_done)
           /\ bn_last' = BonusRun("retry", tid, FALSE, FALSE, FALSE,
                                  tid \in bn_done)
    /\ UNCHANGED <<bn_n, streakVars, pickVars, appVars, skillVars, kvVars,
                   ownerVars, tabVars, mcVars, afterBonusVars>>

\* "Nastepne" under a checked answer
BonusNext ==
    /\ BonusScreen = "feedback"
    /\ LET tid   == BonusPack[bn_mc.active_i + 1]
           total == Len(BonusPack)
       IN  /\ can_go_next(_bonus_all_done_today(BonusPack, bn_done),
                          bn_mc.ui[tid] = "ok", tid \notin NoKeyTasks)
           /\ bn_mc.active_i < total - 1
           /\ BonusRerun([bn_mc EXCEPT !.active_i = Min(@ + 1, total - 1)],
                         bn_done)
           /\ bn_last' = BonusRun("next", tid, TRUE,
                                  bn_mc.ui[tid] = "ok" /\ tid \notin NoKeyTasks,
                                  tid \in NoKeyTasks, tid \in bn_done)
    /\ UNCHANGED <<bn_n, streakVars, pickVars, appVars, skillVars, kvVars,
                   ownerVars, tabVars, mcVars, afterBonusVars>>

\* "Koniec bonusow" under a checked answer to the last task of the pack
BonusFinish ==
    /\ BonusScreen = "feedback"
    /\ LET tid   == BonusPack[bn_mc.active_i + 1]
           total == Len(BonusPack)
       IN  /\ can_go_next(_bonus_all_done_today(BonusPack, bn_done),
                          bn_mc.ui[tid] = "ok", tid \notin NoKeyTasks)
           /\ bn_mc.active_i >= total - 1
           /\ BonusRerun([bn_mc EXCEPT !.done_day = BonusDay,
                                       !.finish_reward =
                                           IF @ = "none" THEN "generic" ELSE @],
                         bn_done)
           /\ bn_last' = BonusRun("finish", tid, FALSE,
                                  bn_mc.ui[tid] = "ok" /\ tid \notin NoKeyTasks,
                                  tid \in NoKeyTasks, tid \in bn_done)
    /\ UNCHANGED <<bn_n, streakVars, pickVars, appVars, skillVars, kvVars,
                   ownerVars, tabVars, mcVars, afterBonusVars>>

\* "OK" on the chest card
BonusChestOk ==
    /\ BonusScreen = "chest"
    /\ BonusRerun([bn_mc EXCEPT !.finish_reward = "none"], bn_done)
    /\ bn_last' = BonusRun("ok", 0, FALSE, FALSE, FALSE, FALSE)
    /\ UNCHANGED <<bn_n, streakVars, pickVars, appVars, skillVars, kvVars,
                   ownerVars, tabVars, mcVars, afterBonusVars>>

\* the page is entered with missions_view = "bonus"
BonusIntent ==
    /\ BonusRerun([bn_mc EXCEPT !.finish_reward = "none"], bn_done)
    /\ bn_last' = BonusRun("intent", 0, FALSE, FALSE, FALSE, FALSE)
    /\ UNCHANGED <<bn_n, streakVars, pickVars, appVars, skillVars, kvVars,
                   ownerVars, tabVars, mcVars, afterBonusVars>>

\* the browser session restarts and the user opens the bonus missions again
BonusRestart ==
    /\ BonusRerun(bonus_default, bn_done)
    /\ bn_last' = BonusRun("restart", 0, FALSE, FALSE, FALSE, FALSE)
    /\ UNCHANGED <<bn_n, streakVars, pickVars, appVars, skillVars, kvVars,
                   ownerVars, tabVars, mcVars, afterBonusVars>>

NextBonus ==
    \/ BonusCheck
    \/ BonusRetry
    \/ BonusNext
    \/ BonusFinish
    \/ BonusChestOk
    \/ BonusIntent
    \/ BonusRestart

SpecBonus ==
    InitBonus /\ [][NextBonus]_vars

\* ========================================================================
\* The daily question cache mc["daily"]["q"] of a logged-in user whose daily
\* mission is not done (render and render_daily of pages/misje.py)
\* ========================================================================
\* the last calendar day of the cache runs
MaxCacheDay ==
    2

\* the steps of the daily mission; step s shows q["q1"], q["q2"], q["q3"]
DailySteps ==
    0..2

NoQuestion ==
    "none"

\* mc["daily"] of mc_default with mc["step"]: no question cached, df_used is
\* None, _fantasy_mode is not set
cache_default ==
    [step |-> 0, q |-> [s \in DailySteps |-> NoQuestion], df_used |-> "None",
     _fantasy_mode |-> "unset"]

\* the keys df_used and q (with ui, toast) are popped and the sequence starts
\* again
cache_pop(c, fantasy) ==
    [c EXCEPT !.df_used = "absent", !.q = [s \in DailySteps |-> NoQuestion],
              !._fantasy_mode = fantasy, !.step = 0]

\* render(): the Fantasy toggle and the stored _fantasy_mode are brought
\* together; every branch that pops ends in st.rerun(), and the run that
\* follows finds the two equal
fantasy_sync(c, cur_fantasy, toggle_changed) ==
    IF toggle_changed
    THEN cache_pop(c, cur_fantasy)
    ELSE IF c._fantasy_mode = "unset"
    THEN IF c.df_used # "absent"
         THEN cache_pop(c, cur_fantasy)
         ELSE [c EXCEPT !._fantasy_mode = cur_fantasy]
    ELSE IF c._fantasy_mode # cur_fantasy
    THEN cache_pop(c, cur_fantasy)
    ELSE c

\* render(): df_used is rebuilt when it is missing: df.copy(), passed through
\* apply_fantasy(df_used, seed=_day_seed(today)) in Fantasy mode; maps says
\* whether the dataset has a column apply_fantasy rewrites
df_rebuild(c, cur_fantasy, maps) ==
    IF c.df_used \in {"absent", "None"}
    THEN [c EXCEPT !.df_used = IF cur_fantasy /\ maps THEN "fantasy" ELSE "plain"]
    ELSE c

\* the question render_daily builds for a step: rng is
\* random.Random(_day_seed(today)) in every run, so the column, the correct
\* value and the options are a function of the day and of df_used
build_question(day, df_used) ==
    <<day, df_used>>

\* render_daily: if "q1" not in q: q["q1"] = {...}
cache_fill(c, day) ==
    IF c.q[c.step] = NoQuestion
    THEN [c EXCEPT !.q[c.step] = build_question(day, c.df_used)]
    ELSE c

\* one run of the page down to render_daily
cache_head(c, cur_fantasy, toggle_changed, maps) ==
    df_rebuild(fantasy_sync(c, IF cur_fantasy THEN "on" ELSE "off",
                            toggle_changed),
               cur_fantasy, maps)

\* one run of the page that ends in render_daily showing the step's question
cache_run(c, day, cur_fantasy, toggle_changed, maps) ==
    cache_fill(cache_head(c, cur_fantasy, toggle_changed, maps), day)

\* render(): missions_view = "daily" drops q; _force_daily_once also sets the
\* step to 0
cache_intent_daily(c, once) ==
    [c EXCEPT !.q = [s \in DailySteps |-> NoQuestion],
              !.step = IF once THEN 0 ELSE @]

\* history of the day: how often each step's entry was built, the question
\* each step showed first, and whether a later run showed another one
NoCacheHistory ==
    [built |-> [s \in DailySteps |-> 0],
     first |-> [s \in DailySteps |-> NoQuestion],
     other |-> [s \in DailySteps |-> FALSE]]

\* what a run adds to the history: pre is the controller that reaches
\* render_daily, c the one that leaves it
CacheSeen(h, pre, c) ==
    LET s     == c.step
        shown == c.q[s]
    IN  [built |-> [h.built EXCEPT ![s] = IF pre.q[s] = NoQuestion
                                          THEN Count(@) ELSE @],
         first |-> [h.first EXCEPT ![s] = IF @ = NoQuestion THEN shown ELSE @],
         other |-> [h.other EXCEPT ![s] = @ \/ (h.first[s] # NoQuestion
                                                /\ h.first[s] # shown)]]

InitCache ==
    /\ dc_day = 1
    /\ dc_toggle = FALSE
    /\ dc_maps \in BOOLEAN
    /\ dc_mc = cache_run(cache_default, 1, FALSE, FALSE, dc_maps)
    /\ dc_hist = CacheSeen(NoCacheHistory,
                            cache_head(cache_default, FALSE, FALSE, dc_maps), dc_mc)
    /\ StreakIdle
    /\ PickIdle
    /\ AppIdle
    /\ SkillIdle
    /\ KvIdle
    /\ OwnerIdle
    /\ TabIdle
    /\ McIdle
    /\ BonusIdle
    /\ AfterCacheIdle

\* the run from controller c0 (after the intent handling) to the drawn question
CacheRun(c0, toggle, toggle_changed) ==
    /\ dc_mc' = cache_run(c0, dc_day, toggle, toggle_changed, dc_maps)
    /\ dc_toggle' = toggle
    /\ dc_hist' = CacheSeen(dc_hist,
                             cache_head(c0, toggle, toggle_changed, dc_maps), dc_mc')
    /\ UNCHANGED <<dc_day, dc_maps>>
    /\ UNCHANGED <<streakVars, pickVars, appVars, skillVars, kvVars, ownerVars,
                   tabVars, mcVars, bonusVars, afterCacheVars>>

\* a rerun, or the page is opened without an intent
CacheRender ==
    CacheRun(dc_mc, dc_toggle, FALSE)

\* the page is opened with missions_view = "daily" (quick button, Start page)
CacheIntentDaily ==
    \E once \in BOOLEAN :
        CacheRun(cache_intent_daily(dc_mc, once), dc_toggle, FALSE)

\* the Fantasy toggle is switched
CacheToggleFantasy ==
    CacheRun(dc_mc, ~dc_toggle, TRUE)

\* a correct answer and "Dalej": the next step is shown
CacheNextStep ==
    /\ dc_mc.step < 2
    /\ CacheRun([dc_mc EXCEPT !.step = @ + 1], dc_toggle, FALSE)

\* the browser session restarts: a new controller and a new toggle
CacheRestart ==
    CacheRun(cache_default, FALSE, FALSE)

\* midnight passes: mc_migrate returns the defaults of the new day, the
\* toggle keeps its value
CacheNextDay ==
    /\ dc_day < MaxCacheDay
    /\ dc_day' = dc_day + 1
    /\ dc_mc' = cache_run(cache_default, dc_day', dc_toggle, FALSE, dc_maps)
    /\ dc_hist' = CacheSeen(NoCacheHistory,
                             cache_head(cache_default, dc_toggle, FALSE, dc_maps),
                             dc_mc')
    /\ UNCHANGED <<dc_toggle, dc_maps>>
    /\ UNCHANGED <<streakVars, pickVars, appVars, skillVars, kvVars, ownerVars,
                   tabVars, mcVars, bonusVars, afterCacheVars>>

NextCache ==
    \/ CacheRender
    \/ CacheIntentDaily
    \/ CacheToggleFantasy
    \/ CacheNextStep
    \/ CacheRestart
    \/ CacheNextDay

SpecCache ==
    InitCache /\ [][NextCache]_vars

\* ========================================================================
\* The daily XP cap of add_xp over the reward operations of one session
\* (core/app_helpers.py, core/missions.py)
\* ========================================================================
\* how many reward operations run
MaxXpCalls ==
    4
\* the last calendar day of the reward operations
MaxXpDay ==
    2

\* xp_gain = int(task.get("xp", 5) or 5) of render_bonus
BONUS_TASK_XP ==
    5

\* the XP add_xp has granted earlier on the first day: none, nearly the cap,
\* the cap
EarnedBefore ==
    {0, DailyCap - 3, DailyCap}

\* core.missions.is_task_done(user, subject, task_text)
is_task_done(w, user, subject, tid, day) ==
    <<day, subject, tid>> \in _user_db_get(w, user).school_tasks

\* the value unlock_game returns
unlock_game_returns(w, game_id, cost) ==
    IF w.ss.gems < cost THEN FALSE ELSE TRUE

InitXp ==
    /\ today_key = 1
    /\ \E earned \in EarnedBefore :
          /\ db = [u \in Users |->
                      [NewProfile EXCEPT !.xp = earned,
                                         !.retention.xp_day = 1,
                                         !.retention.xp_gained_today = earned]]
          /\ xc_granted = earned
    /\ \E u \in Users :
          ss = load_profile_to_session(
                   [db |-> db, ss |-> NewSession(1), gh |-> NoHistory,
                    due |-> FALSE, handled |-> FALSE, info |-> NoInfo,
                    screen |-> "none"], u).ss
    /\ gh = NoHistory
    /\ xc_n = 0
    /\ StreakIdle
    /\ PickIdle
    /\ SkillIdle
    /\ KvIdle
    /\ OwnerIdle
    /\ TabIdle
    /\ McIdle
    /\ BonusIdle
    /\ CacheIdle
    /\ AfterXpIdle

\* a reward operation of the running script, which leaves w; the XP add_xp
\* granted is what it added to st.session_state["xp"]
XpCall(w) ==
    /\ xc_n < MaxXpCalls
    /\ Commit([w EXCEPT !.gh = NoHistory])
    /\ xc_granted' = xc_granted + (w.ss.xp - ss.xp)
    /\ xc_n' = xc_n + 1
    /\ UNCHANGED today_key
    /\ UNCHANGED <<streakVars, pickVars, skillVars, kvVars, ownerVars, tabVars,
                   mcVars, bonusVars, cacheVars, afterXpVars>>

\* a step reward or a completion bonus
XpAddXp ==
    \E due \in BOOLEAN, amount \in {XpDailyStep, XpDailyDone} :
        XpCall(add_xp(World(due), amount, today_key))

\* a correct answer to a bonus task
XpMarkTaskDone ==
    \E due \in BOOLEAN, tid \in TaskIds :
        XpCall(mark_task_done(World(due), ss.user, "matematyka", tid,
                              BONUS_TASK_XP, today_key))

\* midnight passes
XpNextDay ==
    /\ today_key < MaxXpDay
    /\ today_key' = today_key + 1
    /\ xc_granted' = 0
    /\ UNCHANGED <<db, ss, gh, xc_n>>
    /\ UNCHANGED <<streakVars, pickVars, skillVars, kvVars, ownerVars, tabVars,
                   mcVars, bonusVars, cacheVars, afterXpVars>>

NextXp ==
    \/ XpAddXp
    \/ XpMarkTaskDone
    \/ XpNextDay

SpecXp ==
    InitXp /\ [][NextXp]_vars

\* ========================================================================
\* Two sessions writing their users' profiles into the users document
\* (core/persistence.py)
\* ========================================================================
\* how many times a session calls _user_db_set
MaxDocCalls ==
    2

\* the sessions and the user each of them is logged in as
DocSessions ==
    {"s1", "s2"}

DocUser(s) ==
    IF s = "s1" THEN "ala" ELSE "ola"

DocUsers ==
    {DocUser(s) : s \in DocSessions}

\* _load_users(): the "users" row of kv_store when DATABASE_URL is set, else
\* the users file
_load_users(store) ==
    IF store.db_on THEN store.kv ELSE store.file

\* kv_set_json("users", db): an upsert of the whole document, nothing
\* without DATABASE_URL
kv_set_users(store, doc) ==
    IF store.db_on THEN [store EXCEPT !.kv = doc] ELSE store

\* write_json_file_atomic(USERS_FILE, db): under the file lock the whole
\* document replaces the file
write_users_file(store, doc) ==
    [store EXCEPT !.file = doc]

NoDocCall ==
    [pc |-> "idle", db |-> [u \in DocUsers |-> 0], profile |-> 0]

InitDoc ==
    /\ \E db_on \in BOOLEAN :
          ud_store = [db_on |-> db_on,
                      kv |-> [u \in DocUsers |-> 0],
                      file |-> [u \in DocUsers |-> 0]]
    /\ ud_proc = [s \in DocSessions |-> NoDocCall]
    /\ ud_hist = [s \in DocSessions |-> 0]
    /\ StreakIdle
    /\ PickIdle
    /\ AppIdle
    /\ SkillIdle
    /\ KvIdle
    /\ OwnerIdle
    /\ TabIdle
    /\ McIdle
    /\ BonusIdle
    /\ CacheIdle
    /\ XpIdle

\* _user_db_set(user, profile), first two statements: db = _load_users();
\* db[user] = profile.  The profile is the session's next version of it.
DocLoad(s) ==
    /\ ud_proc[s].pc = "idle"
    /\ ud_hist[s] < MaxDocCalls
    /\ ud_proc' = [ud_proc EXCEPT ![s] =
                      [pc |-> "loaded",
                       db |-> [_load_users(ud_store) EXCEPT ![DocUser(s)] = ud_hist[s] + 1],
                       profile |-> ud_hist[s] + 1]]
    /\ UNCHANGED <<ud_store, ud_hist>>
    /\ UNCHANGED <<streakVars, pickVars, appVars, skillVars, kvVars, ownerVars,
                   tabVars, mcVars, bonusVars, cacheVars, xpVars>>

\* _save_users(db), first statement
DocSaveKv(s) ==
    /\ ud_proc[s].pc = "loaded"
    /\ ud_store' = kv_set_users(ud_store, ud_proc[s].db)
    /\ ud_proc' = [ud_proc EXCEPT ![s].pc = "kv_saved"]
    /\ UNCHANGED ud_hist
    /\ UNCHANGED <<streakVars, pickVars, appVars, skillVars, kvVars, ownerVars,
                   tabVars, mcVars, bonusVars, cacheVars, xpVars>>

\* _save_users(db), last statement; _user_db_set returns
DocSaveFile(s) ==
    /\ ud_proc[s].pc = "kv_saved"
    /\ ud_store' = write_users_file(ud_store, ud_proc[s].db)
    /\ ud_proc' = [ud_proc EXCEPT ![s] = NoDocCall]
    /\ ud_hist' = [ud_hist EXCEPT ![s] = ud_proc[s].profile]
    /\ UNCHANGED <<streakVars, pickVars, appVars, skillVars, kvVars, ownerVars,
                   tabVars, mcVars, bonusVars, cacheVars, xpVars>>

NextDoc ==
    \/ \E s \in DocSessions : DocLoad(s)
    \/ \E s \in DocSessions : DocSaveKv(s)
    \/ \E s \in DocSessions : DocSaveFile(s)

SpecDoc ==
    InitDoc /\ [][NextDoc]_vars

\* ------------------------------------------------------------------------
\* Claims about update_streak (checked under SpecStreak)
\* ------------------------------------------------------------------------
Returned ==
    us_out.event # "none"

\* the gap in days between the call's today and the state's last_day
Gap ==
    us_today - us_state.last_day

\* C4: from lastCompletedDay = 2024-01-01 (key 1), streak = 5, freezeCount = 1:
\* today 2024-01-02 gives streak 6 / continue; today 2024-01-03 (the missed day
\* not yet saved) gives streak 6 / freeze with freezeCount 0; today 2024-01-05
\* gives streak 1 / reset; today 2024-01-01 returns the state unchanged / same_day.
C4_StreakTransitionTable ==
    (Returned /\ us_state.last_day = 1 /\ us_state.streak = 5 /\ us_state.freezes = 1)
    => /\ us_today = 2 => /\ us_out.state.streak = 6
                          /\ us_out.event = "continue"
       /\ (us_today = 3 /\ 2 \notin us_state.freeze_used_days)
               => /\ us_out.state.streak = 6
                  /\ us_out.event = "freeze"
                  /\ us_out.state.freezes = 0
       /\ us_today = 5 => /\ us_out.state.streak = 1
                          /\ us_out.event = "reset"
       /\ us_today = 1 => /\ us_out.state = us_state
                          /\ us_out.event = "same_day"

C4_Witness ==
    /\ us_state = StreakState(5, 1, 1, {})
    /\ us_today = 3
    /\ us_out.event = "freeze"

\* C6: with today exactly two days after lastCompletedDay, the call consumes one
\* freeze, records the missed day (today - 1), adds 1 to the streak and returns
\* freeze with that day iff freezeCount > 0 and the missed day is not yet in
\* freezeUsedDays; otherwise streak becomes 1, event reset, freezeCount unchanged.
C6_FreezeOnGapTwo ==
    (Returned /\ us_state.last_day # NoDay /\ Gap = 2)
    => LET missed == us_today - 1
           can    == us_state.freezes > 0 /\ missed \notin us_state.freeze_used_days
       IN  /\ can => /\ us_out.event = "freeze"
                     /\ us_out.gap_day = missed
                     /\ us_out.state.freezes = us_state.freezes - 1
                     /\ us_out.state.freeze_used_days
                            = us_state.freeze_used_days \cup {missed}
                     /\ us_out.state.streak = us_state.streak + 1
           /\ ~can => /\ us_out.event = "reset"
                      /\ us_out.gap_day = NoDay
                      /\ us_out.state.streak = 1
                      /\ us_out.state.freezes = us_state.freezes
                      /\ us_out.state.freeze_used_days = us_state.freeze_used_days

C6_Witness ==
    /\ Returned /\ us_state.last_day # NoDay /\ Gap = 2
    /\ us_state.freezes = 2
    /\ us_out.event = "freeze"
    /\ us_out.state.freezes = 1

Range(seq) ==
    {seq[i] : i \in DOMAIN seq}

RECURSIVE Concat(_, _)
\* the first g chunks, one after the other
Concat(chunks, g) ==
    IF g = 0 THEN <<>> ELSE Concat(chunks, g - 1) \o chunks[g]

\* every element of the pool is returned, and none is returned a second time
\* before all of them have been returned
CoversBeforeRepeat(flat, pool) ==
    /\ Range(flat) = pool
    /\ \A j \in DOMAIN flat :
          (\E i \in 1..(j - 1) : flat[i] = flat[j])
              => {flat[i] : i \in 1..(j - 1)} = pool

\* the rotation of one selector over day_idx = 0 .. ceil(len(pool)/k) - 1
RotationCoverage(impl) ==
    LET n == Len(pk_items)
        g == Ceil(n, pk_k)
    IN  (pk_impl = impl /\ n > 0 /\ pk_k >= 1 /\ Len(pk_picks) >= g)
            => CoversBeforeRepeat(Concat(pk_picks, g), Range(pk_items))

\* C9: for a non-empty pool, k >= 1 and a fixed salt, the picks of
\* pick_daily_chunk for day_idx = 0 .. ceil(len(pool)/k) - 1 visit every pool
\* element before any element is returned a second time.
C9_RotationCoverage ==
    RotationCoverage("app_helpers") /\ RotationCoverage("app_school")

IsPermutationOf(seq, pool) ==
    /\ Len(seq) = Len(pool)
    /\ Range(seq) = Range(pool)

Picked ==
    Len(pk_picks) > 0

LastPick ==
    pk_picks[Len(pk_picks)]

\* C10 (as stated): pick_daily_chunk returns [] for an empty pool and for k <= 0,
\* and a permutation of the whole pool for k >= len(pool).
C10_EdgeCases ==
    (Picked /\ pk_impl \in {"app_helpers", "app"})
    => /\ pk_items = <<>> => LastPick = <<>>
       /\ pk_k <= 0 => LastPick = <<>>
       /\ pk_k >= Len(pk_items) => IsPermutationOf(LastPick, pk_items)

\* C10 (amended): pick_daily_chunk returns [] for an empty pool and a permutation
\* of the whole pool for k >= len(pool); for k <= 0 the pick_daily_chunk of app.py
\* returns [], while core.app_helpers.pick_daily_chunk clamps k to 1 and returns
\* exactly one element of a non-empty pool.
C10_EdgeCasesClamped ==
    (Picked /\ pk_impl \in {"app_helpers", "app"})
    => /\ pk_items = <<>> => LastPick = <<>>
       /\ (pk_k <= 0 /\ pk_impl = "app") => LastPick = <<>>
       /\ (pk_k <= 0 /\ pk_impl = "app_helpers" /\ pk_items # <<>>)
              => /\ Len(LastPick) = 1
                 /\ Range(LastPick) \subseteq Range(pk_items)
       /\ pk_k >= Len(pk_items) => IsPermutationOf(LastPick, pk_items)

C10_Witness ==
    /\ pk_impl = "app_helpers"
    /\ Len(pk_items) = 3
    /\ pk_k = 0
    /\ Len(pk_picks) = 2
    /\ Len(pk_picks[1]) = 1
    /\ Len(pk_picks[2]) = 1

\* ------------------------------------------------------------------------
\* Claims about the retention engine over the store (checked under SpecEngine)
\* ------------------------------------------------------------------------
\* the latest step was a call of mark_daily_done for a (user, day) it had
\* already been called for
MarkedAgain ==
    gh.last.kind = "mark" /\ gh.last.repeated

\* C5: a second mark_daily_done for the same user and day leaves streak,
\* last_day (lastCompletedDay), freezes (freezeCount) and freeze_used
\* (freezeUsedDays) of the stored retention state exactly as they were, and
\* every update_streak call with today equal to last_day returns the state it
\* was given, as event same_day.
C5_SameDayIsNoOp ==
    /\ MarkedAgain =>
           StreakOf(db[gh.last.user].retention) = gh.last.before
    /\ (Returned /\ us_state.last_day = us_today) =>
           /\ us_out.state = us_state
           /\ us_out.event = "same_day"

\* a day was completed and mark_daily_done was called a second time that day,
\* after a freeze had been used on an earlier day
C5_Witness ==
    /\ MarkedAgain
    /\ gh.last.before.streak >= 2
    /\ gh.last.before.last_day = today_key
    /\ gh.last.before.freeze_used_days # {}

\* the latest step was a call of claim_streak_lootbox with a milestone streak
ClaimedMilestone ==
    gh.last.kind = "claim" /\ gh.last.streak \in DOMAIN STREAK_MILESTONES

\* C8: over any sequence of claim_streak_lootbox calls the reward of a
\* milestone (3, 7, 14, 30) is granted to a user at most once, and after a
\* call made with a milestone streak that value is in the stored claimed list
\* (claimedMilestones).
C8_MilestoneOnce ==
    /\ \A k \in Users \X DOMAIN STREAK_MILESTONES : gh.mile_grants[k] <= 1
    /\ ClaimedMilestone =>
           gh.last.streak \in db[gh.last.user].retention.claimed

\* a call with a milestone streak whose reward had been granted before
C8_Witness ==
    /\ ClaimedMilestone
    /\ ~gh.last.granted
    /\ gh.mile_grants[<<gh.last.user, gh.last.streak>>] = 1
    /\ gh.last.streak \in db[gh.last.user].retention.claimed

\* ------------------------------------------------------------------------
\* Claims about the daily mission of a logged-in user (checked under Spec)
\* ------------------------------------------------------------------------
\* C1: when the correct answer of a daily step is submitted a second time for
\* the same (user, day, step), the user's XP after the submission equals the
\* XP before it: the step reward is not granted again.
C1_SecondSubmissionNoXp ==
    (gh.last.kind = "submit" /\ gh.last.repeated) => ss.xp = gh.last.xp_before

\* C2: the reward of a daily step is granted at most once per (user, day,
\* step), however often the page is re-entered, the daily sequence is
\* restarted by an intent, or the session is restarted.
C2_StepRewardOncePerDay ==
    \A k \in StepKeys : gh.step_grants[k] <= 1

LevelBefore(i) ==
    IF i = 1 THEN 1 ELSE sk_levels[i - 1]

\* the outcomes i .. i+4 are all equal to ok
FiveInARow(i, ok) ==
    \A j \in i..(i + 4) : sk_fed[j] = ok

\* C11: 5 consecutive correct outcomes fed from level 1 leave the level at 2,
\* 5 consecutive incorrect outcomes fed from level 2 leave it at 1, and the
\* level does not change while fewer than 5 outcomes have been recorded.
C11_LevelAdaptation ==
    /\ \A i \in 1..(Len(sk_fed) - 4) :
           /\ (FiveInARow(i, TRUE) /\ LevelBefore(i) = 1) => sk_levels[i + 4] = 2
           /\ (FiveInARow(i, FALSE) /\ LevelBefore(i) = 2) => sk_levels[i + 4] = 1
    /\ \A i \in 1..Min(4, Len(sk_fed)) : sk_levels[i] = 1

C13_Original ==
    /\ Cardinality(KvWriting) <= 1
    /\ \A p \in KvThreads :
          kv_proc[p].pc = "read" =>
              \E data \in KvDocs : kv_files[kv_proc[p].fid] = JsonText(data)
    /\ (kv_hist.last.op = "load" /\ kv_hist.last.src # "db") =>
          \/ kv_hist.last.data = EmptyDict /\ kv_hist.last.src = "default"
          \/ /\ kv_hist.last.data \in KvDocs
             /\ kv_hist.last.raw = JsonText(kv_hist.last.data)

\* C13 (amended): where fcntl.flock is available, the write sequences of two
\* writers never overlap; everywhere, the file a reader has open holds the
\* complete text of one writer, and the reader gets the default or that
\* writer's complete document.
C13_WritersSerializeReadersWhole ==
    /\ kv_fcntl => Cardinality(KvWriting) <= 1
    /\ \A p \in KvThreads :
          kv_proc[p].pc = "read" =>
              \E data \in KvDocs : kv_files[kv_proc[p].fid] = JsonText(data)
    /\ (kv_hist.last.op = "load" /\ kv_hist.last.src # "db") =>
          \/ kv_hist.last.data = EmptyDict /\ kv_hist.last.src = "default"
          \/ /\ kv_hist.last.data \in KvDocs
             /\ kv_hist.last.raw = JsonText(kv_hist.last.data)

\* a reader returned a saved document while a writer, holding the lock, had
\* written half of the temporary file of another document
C13_Witness ==
    /\ kv_fcntl
    /\ kv_cfg = "file"
    /\ kv_hist.last.op = "load"
    /\ kv_hist.last.src = "file"
    /\ ~kv_hist.last.quiet
    /\ kv_hist.last.data \in KvDocs
    /\ \E p \in KvThreads :
          /\ kv_proc[p].pc = "dump"
          /\ Len(kv_files[kv_proc[p].fid]) = 1
          /\ kv_proc[p].data # kv_hist.last.data
          /\ kv_lock = p

\* C14: a _save_users during which the database failed returns without an
\* exception and has written the file.
C14_BackendErrorSwallowed ==
    ( /\ kv_hist.last.op = "save"
      /\ kv_hist.last.backend \in {"connect_failed", "execute_failed"} )
    => (~kv_hist.last.raised /\ kv_hist.last.wrote)

C16_Original ==
    (mo_last.kind # "none" /\ mo_last.pre.today # mo_last.day) =>
        /\ mo_last.migrated =
               [mc_default(mo_last.day) EXCEPT
                   !.bonus.finish_reward = mo_last.migrated.bonus.finish_reward,
                   !.daily.finish_reward = mo_last.migrated.daily.finish_reward]
        /\ mo_last.pre.bonus.finish_reward => mo_last.migrated.bonus.finish_reward
        /\ mo_last.pre.daily.finish_reward => mo_last.migrated.daily.finish_reward

\* C16 (amended): the migration of a mc of another day leaves the defaults of
\* the new day but for the finish_reward of the bonus pack, which is as it
\* was; the finish_reward of the daily mission is reset with the rest.
C16_DayChangeKeepsBonusNotice ==
    (mo_last.kind # "none" /\ mo_last.pre.today # mo_last.day) =>
        mo_last.migrated =
            [mc_default(mo_last.day) EXCEPT
                !.bonus.finish_reward = mo_last.pre.bonus.finish_reward]

C16_Witness ==
    /\ mo_last.kind = "other"
    /\ mo_last.pre.today # mo_last.day
    /\ mo_last.day = mo_day
    /\ mo_last.pre.bonus.finish_reward
    /\ mo_last.pre.daily.q_rewarded # {}
    /\ mo_last.pre._user = "ala"
    /\ mo_mc.bonus.finish_reward
    /\ mo_mc._user = NoUser

\* ------------------------------------------------------------------------
\* Claims about the stored profile (checked under SpecTabs)
\* ------------------------------------------------------------------------
\* C17: after a mark_task_done whose nested add_xp wrote the profile, every
\* field mark_task_done does not own (all but school_tasks, xp and gems) has
\* the value the nested add_xp stored.
C17_WritesOnlyOwnFields ==
    (pf_last.kind = "mark_task_done" /\ pf_last.nested) =>
        \A u \in Users :
            /\ db[u].retention = pf_last.after_nested.retention
            /\ db[u].badges = pf_last.after_nested.badges
            /\ db[u].stickers = pf_last.after_nested.stickers
            /\ db[u].unlocked_games = pf_last.after_nested.unlocked_games

\* C18: the stored xp and gems are never negative, a call never lowers the
\* stored xp, and the stored gems are lowered only once gems have been spent.
C18_XpGemsNeverDecrease ==
    \A u \in Users :
        /\ db[u].xp >= 0
        /\ db[u].gems >= 0
        /\ pf_last.kind # "none" =>
              /\ db[u].xp >= pf_last.before.xp
              /\ (db[u].gems >= pf_last.before.gems \/ pf_last.spent)

\* ------------------------------------------------------------------------
\* Claims about the done state of the daily mission (checked under Spec)
\* ------------------------------------------------------------------------
\* C19: the run in which a logged-in user ends the daily mission leaves the
\* mode done, and the next run of the mission page on that day, when no
\* intent is pending, dispatches to the done screen (the mode is still done
\* at the end of the run).
C19_DoneScreenAfterFinish ==
    [][ /\ gh'.last.kind = "finish" => ss'.mc.mode = "done"
        /\ ( /\ gh.last.kind = "finish"
             /\ gh.last.day = today_key
             /\ ss.missions_view = "none"
             /\ ~ss._force_daily_once
             /\ ~ss.force_daily_until
             /\ OpenMisje )
           => ss'.mc.mode = "done" ]_vars


\* the widgets of the mission page a run can be started from
MisjeClicks ==
    {"none", "quick_daily_logged", "quick_bonus_logged", "fantasy_mode", "check",
     "retry", "finish", "stay", "daily_finish_back", "daily_done_to_bonus",
     "mc_bonus_back_daily"}

\* the logged-in user's daily mission is recorded as done for today
DailyRecorded ==
    /\ ss.user # NoUser
    /\ today_key \in db[ss.user].retention.daily_done

\* the state a run of the mission page starts from when it finds the intent
\* (view, once, until)
RunStart(view, once, until, due) ==
    [World(due) EXCEPT !.ss.missions_view = view,
                       !.ss._force_daily_once = once,
                       !.ss.force_daily_until = until]

\* the intent the session state holds now
PendingIntent ==
    <<ss.missions_view, ss._force_daily_once, ss.force_daily_until>>

\* the runs of the mission page that can start in the current state, as
\* <<intent, click>>: the pending rerun or a plain entry of the page; when no
\* rerun is pending, also the entry from a page that has set an intent and the
\* click on a widget of the mission page
MisjeRuns ==
    {<<PendingIntent, "none">>}
        \cup (IF Interactive
               THEN {<<intent, "none">> : intent \in MisjeIntents}
                        \cup {<<PendingIntent, click>> : click \in MisjeClicks}
               ELSE {})

\* P(w0, w, view, once, until) holds of every run of the mission page that can
\* start in the current state: w0 at its start, w at its end
EveryRun(P(_, _, _, _, _)) ==
    \A run \in MisjeRuns, due \in BOOLEAN :
    \A ok \in Inputs(run[2] = "check"), got_freeze \in Inputs(run[2] = "finish"),
       in5s \in Inputs(run[1][3]) :
        LET intent == run[1]
            click  == run[2]
            view  == intent[1]
            once  == intent[2]
            until == intent[3]
            w0 == RunStart(view, once, until, due)
            w  == render(w0, today_key, click, ok, got_freeze, in5s)
        IN  (click # "none" => w.handled) => P(w0, w, view, once, until)

\* the run draws no daily question and grants no daily step reward
NoDailyQuestion(w0, w, view, once, until) ==
    /\ w.screen \notin {"q1", "q2", "q3"}
    /\ w.gh.step_grants = w0.gh.step_grants
    /\ w.gh.submitted = w0.gh.submitted

NoIntent(view, once, until) ==
    view = "none" /\ ~once /\ ~until

\* a run without an intent that starts in mode daily ends in mode bonus
DailySwitchesToBonus(w0, w, view, once, until) ==
    (NoIntent(view, once, until) /\ w0.ss.mc.mode = "daily")
        => w.ss.mc.mode = "bonus"

C20_AsStated(w0, w, view, once, until) ==
    /\ NoDailyQuestion(w0, w, view, once, until)
    /\ DailySwitchesToBonus(w0, w, view, once, until)

\* a run without an intent that starts in mode daily and reaches the mode
\* dispatch draws the bonus screen in mode bonus
DispatchedDailySwitchesToBonus(w0, w, view, once, until) ==
    (NoIntent(view, once, until) /\ w0.ss.mc.mode = "daily" /\ w.screen # "none")
        => (w.ss.mc.mode = "bonus" /\ w.screen = "bonus")

C20_Amended(w0, w, view, once, until) ==
    /\ NoDailyQuestion(w0, w, view, once, until)
    /\ DispatchedDailySwitchesToBonus(w0, w, view, once, until)

\* C20 as stated: once the logged-in user's daily mission is recorded as done
\* for today, no run of the mission page, whatever the intent, draws a daily
\* question or grants a daily step reward, and every run without an intent
\* that starts in mode daily switches the mode to bonus.
C20_Original ==
    DailyRecorded => EveryRun(C20_AsStated)

\* C20, amended: once the logged-in user's daily mission is recorded as done
\* for today, no run of the mission page, whatever the intent, draws a daily
\* question or grants a daily step reward, and every run without an intent
\* that starts in mode daily and reaches the mode dispatch switches the mode
\* to bonus and draws the bonus screen.
C20_DoneDayShowsNoQuestion ==
    DailyRecorded => EveryRun(C20_Amended)

\* the daily mission was finished today and a forced-daily intent has put the
\* user's own controller back at step 0 of mode daily; no intent is pending
C20_Witness ==
    /\ DailyRecorded
    /\ gh.finishes[<<ss.user, today_key>>] = 1
    /\ ss.mc._user = ss.user
    /\ ss.mc.mode = "daily"
    /\ ss.mc.step = 0
    /\ ~ss.mc.daily.finish_reward
    /\ NoIntent(ss.missions_view, ss._force_daily_once, ss.force_daily_until)
    /\ ~ss.rerun

\* ------------------------------------------------------------------------
\* Claims about the controller schema (checked under SpecMc)
\* ------------------------------------------------------------------------
Modes ==
    {"daily", "bonus", "subject", "free", "done"}

\* C21: when the stored controller state has a step cursor outside 0..2 or
\* another schema version, the operation that handles it (ensure_mc_state,
\* the step check of render_daily) leaves exactly the default state of the
\* day: nothing of the corrupt state is kept.
C21_CorruptStateDiscarded ==
    (mg_last.kind \in {"migrate", "bad_step"} /\ mg_last.corrupt)
        => mg_x = mc_default_py(mg_last.day)

\* C29: after a run of the mission page has handled the navigation intent,
\* the mode is one of daily, bonus, subject, free, done, whatever value the
\* session held under mode before the run.
C29_ModeInRange ==
    (mg_last.kind = "intent" /\ mg_last.processed)
        => (mg_x.v["mode"].t = "str" /\ mg_x.v["mode"].v \in Modes)

\* a run without a view has handled the intent of a session whose mode was
\* no name of a mode, or None
C29_Witness ==
    /\ mg_last.kind = "intent"
    /\ mg_last.processed
    /\ mg_last.view = "none"
    /\ mg_last.mode \in {PyStr("menu"), PyNone}
    /\ mg_last.owned
    /\ mg_x.v["mode"].v \in {"free", "daily"}

\* C30: mc_migrate is idempotent for a fixed day: migrating the result of a
\* migration again, for the same day, returns it unchanged.
C30_MigrateIdempotent ==
    \A d \in McDays :
        mc_migrate_py(mc_migrate_py(mg_x, d), d) = mc_migrate_py(mg_x, d)

\* ensure_mc_state has rewritten a stored dict (it differs from its result)
\* and a second migration for the same day leaves the result as it is
C30_Witness ==
    /\ mg_last.kind = "migrate"
    /\ mg_last.changed
    /\ mg_x # mc_default_py(mg_last.day)
    /\ mc_migrate_py(mg_x, mg_last.day) = mg_x

\* ------------------------------------------------------------------------
\* Claims about the bonus missions (checked under SpecBonus)
\* ------------------------------------------------------------------------
\* C22 as stated: the handler of a run of render_bonus moves the cursor
\* active_i forward only when the answer to the task under the cursor matched
\* its key or the task was in the day's ledger before the run.
C22_Original ==
    bn_last.moved => bn_last.correct \/ bn_last.completed

\* C22: in bonus mode the cursor active_i moves forward to the next task only
\* when the task under the cursor has been answered correctly, has no answer
\* key (every checked answer to it is accepted), or had already been
\* completed earlier (practice mode).
C22_CursorAdvance ==
    bn_last.moved => bn_last.correct \/ bn_last.nokey \/ bn_last.completed

C22_Witness ==
    /\ bn_last.kind = "check"
    /\ bn_last.moved
    /\ bn_last.correct
    /\ ~bn_last.completed
    /\ bn_mc.ui[bn_last.tid] = "ok"

\* a wrong answer in practice mode, then "Nastepne"
C22_WitnessPractice ==
    /\ bn_last.kind = "next"
    /\ bn_last.moved
    /\ bn_last.completed
    /\ ~bn_last.correct

\* C23: once every task of the pack the day started with has been answered
\* correctly in bonus mode, the pack-complete bonus has been granted exactly
\* once that day.
C23_PackCompleteBonus ==
    (bn_n.first # {} /\ bn_n.first \subseteq bn_n.answered) => bn_n.masters = 1

\* ------------------------------------------------------------------------
\* Claims about the daily question cache (checked under SpecCache)
\* ------------------------------------------------------------------------
\* C24: during one calendar day the cache entry of each step is built at
\* most once, and every run that shows the step shows the question the first
\* run of that step showed.
C24_QuestionCachedOnce ==
    \A s \in DailySteps :
        /\ dc_hist.built[s] <= 1
        /\ ~dc_hist.other[s]

\* the part of C24 about the question shown
C24_QuestionShownStable ==
    \A s \in DailySteps : ~dc_hist.other[s]

\* ------------------------------------------------------------------------
\* Claims about mark_task_done and unlock_game (checked under SpecTabs)
\* ------------------------------------------------------------------------
\* C25: a call of mark_task_done for a (user, day, subject, task) that is
\* already in the ledger changes neither the user's XP (the session's XP stays
\* and the stored XP does not fall) nor the ledger, and is_task_done stays
\* true for every task of the ledger.
C25_MarkTaskDoneOnce ==
    [][(/\ pf_last'.n # pf_last.n
        /\ pf_last'.kind = "mark_task_done"
        /\ ~pf_last'.nested) =>
           /\ ss'.xp = ss.xp
           /\ db'[ss.user].xp >= db[ss.user].xp
           /\ db'[ss.user].school_tasks = db[ss.user].school_tasks]_vars

\* the part of C25 about the ledger and is_task_done
C25_LedgerKept ==
    (pf_last.kind = "mark_task_done") =>
        /\ pf_last.before.school_tasks \subseteq db[ss.user].school_tasks
        /\ \E tid \in TaskIds :
              is_task_done(StateNow(FALSE), ss.user, "matematyka", tid, today_key)

\* C27: in every state in which the game is unlocked in the session,
\* unlock_game returns True and leaves the gems as they are.
C27_UnlockedReturnsTrue ==
    "saper" \in ss.unlocked_games =>
        /\ unlock_game_returns(StateNow(FALSE), "saper", SAPER_UNLOCK_COST)
        /\ unlock_game(StateNow(FALSE), "saper", SAPER_UNLOCK_COST).ss.gems = ss.gems

\* the part of C27 about the gems
C27_UnlockedKeepsGems ==
    "saper" \in ss.unlocked_games =>
        unlock_game(StateNow(FALSE), "saper", SAPER_UNLOCK_COST).ss.gems = ss.gems

\* ------------------------------------------------------------------------
\* Claims about the daily XP cap (checked under SpecXp)
\* ------------------------------------------------------------------------
\* C26: the XP add_xp has granted to the logged-in user during the current
\* calendar day never exceeds the daily cap.
C26_DailyCap ==
    xc_granted <= DailyCap

\* ------------------------------------------------------------------------
\* Claims about the users document (checked under SpecDoc)
\* ------------------------------------------------------------------------
\* C28: once the calls of _user_db_set of both sessions have returned, the
\* stored users document holds, for each session's user, the profile the
\* session's last call wrote.
C28_NoLostUpdate ==
    (\A s \in DocSessions : ud_proc[s].pc = "idle") =>
        \A s \in DocSessions :
            ud_hist[s] > 0 => _load_users(ud_store)[DocUser(s)] = ud_hist[s]

====
